---------------------------- MODULE Spec2Model ----------------------------
(***************************************************************************)
(* The payment calculator of src/src/App.jsx (calculatePayment, lines     *)
(* 29-128) as a state machine: a mentor document, the mentor's task list, *)
(* and the breakdown the calculator returns for them.  Spec runs it on     *)
(* lists of well-formed and skipped records, SpecScenario on the worked    *)
(* scenario, SpecPartial on records with fields missing, SpecRatings on    *)
(* lectures rated to one decimal, and SpecProfile runs the MentorProfile   *)
(* component (lines 875-901, 1034-1045) that calls it per window and week. *)
(* The specifications of the App component (its state, the Firestore       *)
(* documents and its asynchronous calls) follow those of the calculator;   *)
(* each kind of specification leaves the variables of the other alone.     *)
(*                                                                         *)
(* Numbers.  JavaScript numbers are modelled in fixed point, exactly:      *)
(*   minutes, counts, base rate   integers                                 *)
(*   rating                       hundredths      (450 is 4.5)             *)
(*   a double near a decimal      [dec, err], see Doubles below            *)
(*   chaptersCompleted            thousandths     (4000 is 4 units)        *)
(*   M_rate, M_freq               hundredths      (75 is 0.75)             *)
(*   unrounded money              ten-thousandths (375000 is 37.5)         *)
(*   rounded money                integers                                 *)
(*   averageRating                the quotient of the double sum          *)
(*                                [num, err] by the count den              *)
(* A property a document does not have (undefined in JavaScript) is a      *)
(* field the TLA+ record does not have.                                    *)
(***************************************************************************)
EXTENDS Integers, Sequences, FiniteSets, TLC

VARIABLES
    mentor,   \* the mentor document whose baseRate is passed to the calculator
    tasks,    \* that mentor's task documents, in the order of the tasks state
              \* (under SpecProfile: the documents of every mentor)
    pc,       \* "idle" before the call, "returned" after it
    locals,   \* calculatePayment's local constants at its return statement
              \* (under SpecProfile: those of MentorProfile's render)
    result,   \* the object calculatePayment returned
              \* (under SpecProfile: the summaries MentorProfile displays)
    app,      \* the state of the App component (lines 152-187), by hook name
    store,    \* the Firestore documents under /artifacts/<appId>/public/data
    calls     \* the asynchronous calls in flight, each at one of its awaits

\* the variables of the calculator and those of the App component around it
calcVars == <<mentor, tasks, pc, locals, result>>
appVars == <<app, store, calls>>

vars == <<calcVars, appVars>>

(***************************************************************************)
(* Bounds of the model.                                                    *)
(***************************************************************************)
MaxTasks == 3

\* the length of the lists of partial records
MaxPartialTasks == 1

\* the number of task documents under the mentor profile
MaxProfileTasks == 2

\* the length of the lists of lectures rated to one decimal
MaxRatingTasks == 4

\* the number of task documents addTask writes while mentors are deleted
MaxAddedTasks == 2

\* the number of times the user submits the mentor form, adds a team or
\* deletes a team
MaxTeamOperations == 3

\* the number of operations the user starts after initialization
MaxAppOperations == 1

\* the number of times the task form is submitted
MaxSubmissions == 2

\* the mentors and the tasks the dashboard shows
MaxDashboardMentors == 2
MaxDashboardTasks == 2

(***************************************************************************)
(* Property reads.                                                         *)
(***************************************************************************)
Has(obj, field) == field \in DOMAIN obj

\* task.taskType !== 'Lecture' (lines 38, 97), negated
IsLecture(task) == Has(task, "taskType") /\ task.taskType = "Lecture"

\* !task.chapterName is false (line 38)
HasChapterName(task) == Has(task, "chapterName") /\ task.chapterName # ""

\* !task.minutes is false (line 38)
HasMinutes(task) == Has(task, "minutes") /\ task.minutes # 0

\* Variant of HasRating that takes a rating of 0 for a rating.
HasRating_ZeroCounts(task) == Has(task, "rating")

\* if (task.rating) (line 45)
HasRating(task) == Has(task, "rating") /\ task.rating # 0

(***************************************************************************)
(* Doubles.  A rating is typed as a decimal (lines 843-851: 1 to 5) and    *)
(* parseFloat (line 731) stores the nearest IEEE-754 double, which is what *)
(* lines 57 and 68 add and divide.  The double x near a decimal is the     *)
(* pair [dec, err] with                                                    *)
(*        x = dec / 100 + err / (25 * 2^52)    exactly,                    *)
(* so that x * 25 * 2^52 = dec * 2^50 + err.  A double of the binade       *)
(* [2^k, 2^(k+1)) is a multiple of 2^(k-52), that is, dec * 2^50 + err is  *)
(* a multiple of 25 * 2^k; rounding to the nearest double, ties to the     *)
(* even one, is arithmetic modulo 25 * 2^k.  The values are 0 or >= 1.     *)
(***************************************************************************)
\* 2^(50 - k) modulo 25: 2^50 is 24 modulo 25, and 13 is the inverse of 2
Pow2Mod25(k) == (24 * 13^k) % 25

\* the k with 2^k <= x < 2^(k+1), for 1 <= x < 64
Binade(x) ==
    Cardinality({j \in 1..5 :
        x.dec > 100 * 2^j \/ (x.dec = 100 * 2^j /\ x.err >= 0)})

\* the double nearest the real number x, ties to even
RoundToDouble(x) ==
    LET k == Binade(x)
        M == 25 * 2^k
        \* x * 25 * 2^52 modulo M, and modulo 2M for the parity of the quotient
        r == (2^k * (((x.dec % 25) * Pow2Mod25(k)) % 25) + x.err) % M
        r2 == (2^(k + 1) * (((x.dec % 25) * Pow2Mod25(k + 1)) % 25) + x.err)
                  % (2 * M)
    IN IF 2 * r < M \/ (2 * r = M /\ r2 < M)
       THEN [dec |-> x.dec, err |-> x.err - r]
       ELSE [dec |-> x.dec, err |-> x.err + M - r]

Zero == [dec |-> 0, err |-> 0]

\* the double a decimal of d hundredths is stored as (parseFloat, line 731)
Double(d) == IF d = 0 THEN Zero ELSE RoundToDouble([dec |-> d, err |-> 0])

\* a + b of two doubles (lines 57)
FloatAdd(a, b) ==
    IF a = Zero THEN b
    ELSE RoundToDouble([dec |-> a.dec + b.dec, err |-> a.err + b.err])

(***************************************************************************)
(* Lines 37-50: the reduce that groups the lectures by chapterName.  The   *)
(* accumulator object is the sequence of its entries in insertion order,   *)
(* which is the order the for-in loop of line 53 visits them in.           *)
(***************************************************************************)
\* Variant of Included with the test of the taskType left out, so that a
\* record of any type with a chapterName and minutes is grouped.
Included_AnyType(task) ==
    /\ HasChapterName(task)
    /\ HasMinutes(task)
    /\ ~(task.minutes <= 0)

\* Variant of Included with the test minutes <= 0 left out, so that a record
\* with negative minutes is grouped.
Included_NoSignTest(task) ==
    /\ IsLecture(task)
    /\ HasChapterName(task)
    /\ HasMinutes(task)

\* line 38, negated: the record is not skipped
Included(task) ==
    /\ IsLecture(task)
    /\ HasChapterName(task)
    /\ HasMinutes(task)
    /\ ~(task.minutes <= 0)

ChapterIndex(acc, name) ==
    IF \E i \in 1..Len(acc) : acc[i].chapterName = name
    THEN CHOOSE i \in 1..Len(acc) : acc[i].chapterName = name
    ELSE 0

\* lines 41-43
EnsureChapter(acc, name) ==
    IF ChapterIndex(acc, name) = 0
    THEN Append(acc, [chapterName |-> name, totalMinutes |-> 0,
                      ratings |-> <<>>, lectureCount |-> 0])
    ELSE acc

\* Variant of AccumulateLecture that pushes 0 for a record without a rating.
AccumulateLecture_ZeroRating(entry, task) ==
    [entry EXCEPT !.totalMinutes = @ + task.minutes,
                  !.ratings = Append(@, IF HasRating(task) THEN Double(task.rating)
                                        ELSE Zero),
                  !.lectureCount = @ + 1]

\* Variant of AccumulateLecture that stops counting records once the chapter
\* has reached the cap.
AccumulateLecture_CappedCount(entry, task) ==
    [entry EXCEPT !.totalMinutes = @ + task.minutes,
                  !.ratings = IF HasRating(task) THEN Append(@, Double(task.rating))
                             ELSE @,
                  !.lectureCount = IF entry.totalMinutes >= 240 THEN @ ELSE @ + 1]

\* lines 44-48
AccumulateLecture(entry, task) ==
    [entry EXCEPT !.totalMinutes = @ + task.minutes,
                  !.ratings = IF HasRating(task) THEN Append(@, Double(task.rating))
                             ELSE @,
                  !.lectureCount = @ + 1]

Range(s) == {s[i] : i \in 1..Len(s)}

\* lines 37-49: the reducer callback
ChapterReducer(acc, task) ==
    IF ~Included(task)
    THEN acc
    ELSE LET acc1 == EnsureChapter(acc, task.chapterName)
             i == ChapterIndex(acc1, task.chapterName)
         IN [acc1 EXCEPT ![i] = AccumulateLecture(@, task)]

RECURSIVE Reduce(_, _)
Reduce(ts, acc) ==
    IF ts = <<>> THEN acc ELSE Reduce(Tail(ts), ChapterReducer(acc, Head(ts)))

chapterData(ts) == Reduce(ts, <<>>)

(***************************************************************************)
(* Lines 53-59: the final aggregation over the chapters.                   *)
(***************************************************************************)
\* line 57: data.ratings.reduce((sum, r) => sum + r, 0), from the left
RECURSIVE SumSeq(_)
SumSeq(s) ==
    IF s = <<>> THEN Zero
    ELSE FloatAdd(SumSeq(SubSeq(s, 1, Len(s) - 1)), s[Len(s)])

\* Variant of MathMin that returns the larger argument.
MathMin_Larger(a, b) == IF a < b THEN b ELSE a

MathMin(a, b) == IF a < b THEN a ELSE b

\* Variant of BillableMinutes whose cap is 240 for every lecture of the
\* chapter.
BillableMinutes_PerLectureCap(data) ==
    IF data.totalMinutes < 240 * data.lectureCount
    THEN data.totalMinutes ELSE 240 * data.lectureCount

\* Variant of BillableMinutes without the cap.
BillableMinutes_Uncapped(data) == data.totalMinutes

\* line 55: Math.min(data.totalMinutes, 240)
BillableMinutes(data) == MathMin(data.totalMinutes, 240)

RECURSIVE Aggregate(_, _)
Aggregate(cd, agg) ==
    IF cd = <<>>
    THEN agg
    ELSE LET data == Head(cd)
         IN Aggregate(Tail(cd),
                [lectureBillableMinutes |->
                     agg.lectureBillableMinutes + BillableMinutes(data),
                 lecturesCount |-> agg.lecturesCount + data.lectureCount,
                 lectureRatingSum |->
                     FloatAdd(agg.lectureRatingSum, SumSeq(data.ratings)),
                 lectureRatingCount |-> agg.lectureRatingCount + Len(data.ratings)])

\* lines 31-34 and 53-59
LectureTotals(ts) ==
    Aggregate(chapterData(ts),
              [lectureBillableMinutes |-> 0, lecturesCount |-> 0,
               lectureRatingSum |-> Zero, lectureRatingCount |-> 0])

(***************************************************************************)
(* Lines 62-89: rate, base pay and the two modifiers.                      *)
(***************************************************************************)
\* Variant of R_minute that defaults only a missing rate (?? in place of ||).
R_minute_Nullish(m) == IF Has(m, "baseRate") THEN m.baseRate ELSE 10

\* line 62: baseRatePerMinute || 10, the argument being mentor.baseRate
R_minute(m) == IF Has(m, "baseRate") /\ m.baseRate # 0 THEN m.baseRate ELSE 10

\* Variant of averageRating that defaults to 0 when nothing is rated.
averageRating_DefaultZero(sum, count) ==
    IF count > 0 THEN [num |-> sum.dec, err |-> sum.err, den |-> count]
    ELSE [num |-> 0, err |-> 0, den |-> 1]

\* line 68: the quotient of the double sum by the count; 5.0 is exact
averageRating(sum, count) ==
    IF count > 0 THEN [num |-> sum.dec, err |-> sum.err, den |-> count]
    ELSE [num |-> 500, err |-> 0, den |-> 1]

\* The double quotient q = fl(sum / den) against 2.5 and 3.5.  Both have an
\* even significand and neighbours 2^-51 away, so q < 2.5 iff
\* sum / den < 2.5 - 2^-52 and q <= 3.5 iff sum / den <= 3.5 + 2^-52; in
\* units of 1 / (25 * 2^52) the half-gap 2^-52 is 25.
\* Variant of M_rate whose middle band excludes 3.5 (< in place of <=).
M_rate_OpenUpper(avg) ==
    IF \/ avg.num < 250 * avg.den
       \/ avg.num = 250 * avg.den /\ avg.err < -25 * avg.den
    THEN 60
    ELSE IF \/ avg.num < 350 * avg.den
            \/ avg.num = 350 * avg.den /\ avg.err < -25 * avg.den
    THEN 75
    ELSE 100

\* lines 69-76
M_rate(avg) ==
    IF \/ avg.num < 250 * avg.den
       \/ avg.num = 250 * avg.den /\ avg.err < -25 * avg.den
    THEN 60
    ELSE IF \/ avg.num < 350 * avg.den
            \/ avg.num = 350 * avg.den /\ avg.err <= 25 * avg.den
    THEN 75
    ELSE 100

\* Variant of M_freq whose penalty guard is a conjunction (&& in place of ||).
M_freq_PenaltyAnd(count, billable) ==
    IF count >= 3 /\ billable >= 180 THEN 120
    ELSE IF count >= 2 /\ billable >= 120 THEN 100
    ELSE IF count < 2 /\ billable < 120 THEN 80
    ELSE 100

\* lines 79-86
M_freq(count, billable) ==
    IF count >= 3 /\ billable >= 180 THEN 120
    ELSE IF count >= 2 /\ billable >= 120 THEN 100
    ELSE IF count < 2 \/ billable < 120 THEN 80
    ELSE 100

(***************************************************************************)
(* Lines 95-108: the other work.                                           *)
(***************************************************************************)
CHAPTER_RATE == 500

\* Variant of Chapters that defaults to one unit, the form's default.
Chapters_DefaultOne(task) ==
    IF Has(task, "chaptersCompleted") /\ task.chaptersCompleted # 0
    THEN task.chaptersCompleted
    ELSE 1000

\* line 103: task.chaptersCompleted || 0, in thousandths
Chapters(task) ==
    IF Has(task, "chaptersCompleted") /\ task.chaptersCompleted # 0
    THEN task.chaptersCompleted
    ELSE 0

\* lines 97-108: filter and forEach
RECURSIVE OtherWork(_, _)
OtherWork(ts, acc) ==
    IF ts = <<>>
    THEN acc
    ELSE IF IsLecture(Head(ts))
         THEN OtherWork(Tail(ts), acc)
         ELSE OtherWork(Tail(ts),
                  [totalChaptersCompleted |->
                       acc.totalChaptersCompleted + Chapters(Head(ts)),
                   \* thousandths times the rate, in ten-thousandths
                   P_final_other |->
                       acc.P_final_other + Chapters(Head(ts)) * CHAPTER_RATE * 10])

(***************************************************************************)
(* Lines 114-127: rounding and formatting of the returned fields.          *)
(***************************************************************************)
\* Math.round of a number of ten-thousandths: the nearest integer, halves up
MathRound(x) == (x + 5000) \div 10000

Digit(d) == ToString(d)

\* Whether the double quotient fl(sum / den) is at least the decimal
\* a + 1/2 hundredths, when num / den is exactly that decimal.  In units of
\* 1 / (25 * 2^52) the decimal is Q0 = (2a + 1) * 2^49 and the quotient is
\* the multiple of M nearest Q0 + err / den, ties to the even multiple.
HalfwayRoundsUp(avg, a) ==
    LET n == avg.den
        k == Cardinality({j \in 1..5 : 2 * a + 1 > 200 * 2^j})
        M == 25 * 2^k
        \* Q0 modulo M and modulo 2M
        r0 == 2^k * ((((2 * a + 1) % 25) * Pow2Mod25(k + 1)) % 25)
        r0b == 2^(k + 1) * ((((2 * a + 1) % 25) * Pow2Mod25(k + 2)) % 25)
        \* the position of the quotient above the multiple below Q0, times n
        y == n * r0 + avg.err
        j == y \div (n * M)
        rem == y % (n * M)
        evenBelow == (r0b < M) <=> (j % 2 = 0)
        jr == IF 2 * rem > n * M \/ (2 * rem = n * M /\ ~evenBelow)
              THEN j + 1 ELSE j
    IN jr * M >= r0

\* line 123: Number.prototype.toFixed(2) of the double quotient, the number
\* of hundredths nearest its exact value, halves up
toFixed2(avg) ==
    LET n == avg.den
        a == (2 * avg.num - n) \div (2 * n)
        h == IF (2 * avg.num + n) % (2 * n) # 0
             THEN (2 * avg.num + n) \div (2 * n)
             ELSE IF HalfwayRoundsUp(avg, a) THEN a + 1 ELSE a
    IN Digit(h \div 100) \o "." \o Digit((h \div 10) % 10) \o Digit(h % 10)

(***************************************************************************)
(* calculatePayment, lines 29-128.                                         *)
(***************************************************************************)
calculatePaymentLocals(ts, m) ==
    LET lt == LectureTotals(ts)
        rate == R_minute(m)
        \* line 65, in ten-thousandths
        base == lt.lectureBillableMinutes * rate * 10000
        avg == averageRating(lt.lectureRatingSum, lt.lectureRatingCount)
        mrate == M_rate(avg)
        mfreq == M_freq(lt.lecturesCount, lt.lectureBillableMinutes)
        \* line 89: the two modifiers are hundredths, so the product of the
        \* base pay with them is a number of ten-thousandths
        lectures == lt.lectureBillableMinutes * rate * mrate * mfreq
        other == OtherWork(ts, [totalChaptersCompleted |-> 0, P_final_other |-> 0])
    IN [lectureBillableMinutes |-> lt.lectureBillableMinutes,
        lectureRatingSum |-> lt.lectureRatingSum,
        lectureRatingCount |-> lt.lectureRatingCount,
        lecturesCount |-> lt.lecturesCount,
        R_minute |-> rate,
        basePayLectures |-> base,
        averageRating |-> avg,
        M_rate |-> mrate,
        M_freq |-> mfreq,
        P_final_lectures |-> lectures,
        totalChaptersCompleted |-> other.totalChaptersCompleted,
        P_final_other |-> other.P_final_other,
        P_final |-> lectures + other.P_final_other]

\* Variant of ReturnValue whose P_final_lectures is cut off (Math.floor in
\* place of Math.round).
ReturnValue_FloorLectures(l) ==
    [P_final |-> MathRound(l.P_final),
     P_final_lectures |-> l.P_final_lectures \div 10000,
     P_final_other |-> MathRound(l.P_final_other),
     T_billable |-> l.lectureBillableMinutes,
     totalChaptersCompleted |-> l.totalChaptersCompleted,
     R_minute |-> l.R_minute,
     M_rate |-> l.M_rate,
     M_freq |-> l.M_freq,
     averageRating |-> toFixed2(l.averageRating),
     lecturesCount |-> l.lecturesCount,
     basePayLectures |-> MathRound(l.basePayLectures),
     CHAPTER_RATE |-> CHAPTER_RATE]

\* Variant of ReturnValue whose P_final adds the two rounded parts.
ReturnValue_SumOfRounded(l) ==
    [P_final |-> MathRound(l.P_final_lectures) + MathRound(l.P_final_other),
     P_final_lectures |-> MathRound(l.P_final_lectures),
     P_final_other |-> MathRound(l.P_final_other),
     T_billable |-> l.lectureBillableMinutes,
     totalChaptersCompleted |-> l.totalChaptersCompleted,
     R_minute |-> l.R_minute,
     M_rate |-> l.M_rate,
     M_freq |-> l.M_freq,
     averageRating |-> toFixed2(l.averageRating),
     lecturesCount |-> l.lecturesCount,
     basePayLectures |-> MathRound(l.basePayLectures),
     CHAPTER_RATE |-> CHAPTER_RATE]

\* lines 114-127
ReturnValue(l) ==
    [P_final |-> MathRound(l.P_final),
     P_final_lectures |-> MathRound(l.P_final_lectures),
     P_final_other |-> MathRound(l.P_final_other),
     T_billable |-> l.lectureBillableMinutes,
     totalChaptersCompleted |-> l.totalChaptersCompleted,
     R_minute |-> l.R_minute,
     M_rate |-> l.M_rate,
     M_freq |-> l.M_freq,
     averageRating |-> toFixed2(l.averageRating),
     lecturesCount |-> l.lecturesCount,
     basePayLectures |-> MathRound(l.basePayLectures),
     CHAPTER_RATE |-> CHAPTER_RATE]

calculatePayment(ts, m) == ReturnValue(calculatePaymentLocals(ts, m))

(***************************************************************************)
(* The inputs the model draws from.                                        *)
(***************************************************************************)
ChapterNames == {"Ch1", "Ch2"}

\* lectures the calculator includes, without a rating
UnratedLectures ==
    {[taskType |-> "Lecture", chapterName |-> "Ch1", minutes |-> m] :
        m \in {50, 100, 200}}

\* lectures the calculator includes, with a rating: 2.49, 2.5 or 4.5
RatedLectures ==
    {[taskType |-> "Lecture", chapterName |-> c, minutes |-> 60, rating |-> r] :
        c \in ChapterNames, r \in {249, 250, 450}}

\* Lecture records that line 38 skips: no chapterName, an empty one, no
\* minutes, zero minutes, negative minutes.  Each carries a rating and a
\* chaptersCompleted.
SkippedLectures ==
    {[taskType |-> "Lecture", minutes |-> 100, rating |-> 100,
      chaptersCompleted |-> 2000],
     [taskType |-> "Lecture", chapterName |-> "", minutes |-> 100, rating |-> 100,
      chaptersCompleted |-> 2000],
     [taskType |-> "Lecture", chapterName |-> "Ch1", rating |-> 100,
      chaptersCompleted |-> 2000],
     [taskType |-> "Lecture", chapterName |-> "Ch1", minutes |-> 0, rating |-> 100,
      chaptersCompleted |-> 2000],
     [taskType |-> "Lecture", chapterName |-> "Ch1", minutes |-> -30,
      rating |-> 100, chaptersCompleted |-> 2000]}

\* records that are not Lecture records: no chaptersCompleted, 0.001 units,
\* no taskType, and one that carries the fields of a lecture as well
OtherTasks ==
    {[taskType |-> "Content"],
     [taskType |-> "Content", chaptersCompleted |-> 1],
     [chaptersCompleted |-> 3000],
     [taskType |-> "TestSeries", chaptersCompleted |-> 4000,
      chapterName |-> "Ch1", minutes |-> 200, rating |-> 100]}

TaskInputs == UnratedLectures \cup RatedLectures \cup SkippedLectures \cup OtherTasks

\* mentor documents: no baseRate, a baseRate of 0, a baseRate of 7
MentorInputs ==
    {[id |-> "m1"],
     [id |-> "m1", baseRate |-> 0],
     [id |-> "m1", baseRate |-> 7]}

(***************************************************************************)
(* The state machine.                                                      *)
(***************************************************************************)
NoLocals == [pending |-> TRUE]
NoResult == [pending |-> TRUE]

\* the calculator's specifications say nothing of the App component
AppNotModelled == app = <<>> /\ store = <<>> /\ calls = <<>>

Init ==
    /\ mentor \in MentorInputs
    /\ tasks = <<>>
    /\ pc = "idle"
    /\ locals = NoLocals
    /\ result = NoResult
    /\ AppNotModelled

\* The tasks listener delivers the mentor's list with one more document, the
\* newest first (line 301); the breakdown of the old list is dropped.
AddTask(task) ==
    /\ Len(tasks) < MaxTasks
    /\ tasks' = <<task>> \o tasks
    /\ pc' = "idle"
    /\ locals' = NoLocals
    /\ result' = NoResult
    /\ UNCHANGED <<mentor, appVars>>

RECURSIVE Reverse(_)
Reverse(s) == IF s = <<>> THEN <<>> ELSE Append(Reverse(Tail(s)), Head(s))

\* Variant of Calculate that leaves the list it was given reversed, as a
\* sort in place would.
Calculate_ReversesInput ==
    /\ pc = "idle"
    /\ locals' = calculatePaymentLocals(tasks, mentor)
    /\ result' = calculatePayment(tasks, mentor)
    /\ pc' = "returned"
    /\ tasks' = Reverse(tasks)
    /\ UNCHANGED <<mentor, appVars>>

\* MentorProfile renders: calculatePayment(mentorTasks, mentor.baseRate) runs to
\* its return (line 885).  The function assigns to its own locals and to the
\* accumulator object it created (lines 31-34, 37-50, 95-108) and to nothing
\* it was given.
Calculate ==
    /\ pc = "idle"
    /\ locals' = calculatePaymentLocals(tasks, mentor)
    /\ result' = calculatePayment(tasks, mentor)
    /\ pc' = "returned"
    /\ UNCHANGED <<mentor, tasks, appVars>>

Next ==
    \/ \E task \in TaskInputs : AddTask(task)
    \/ Calculate

Spec == Init /\ [][Next]_vars

(***************************************************************************)
(* The same machine on the documents of the worked scenario: a mentor with *)
(* a base rate of 10 (or none, which line 62 turns into 10), two lectures  *)
(* of chapter Ch1 and one Content record.                                  *)
(***************************************************************************)
ScenarioLecture150 ==
    [taskType |-> "Lecture", chapterName |-> "Ch1", minutes |-> 150, rating |-> 400]

ScenarioLecture100 ==
    [taskType |-> "Lecture", chapterName |-> "Ch1", minutes |-> 100, rating |-> 450]

ScenarioContent ==
    [taskType |-> "Content", chaptersCompleted |-> 3000]

ScenarioTasks == {ScenarioLecture150, ScenarioLecture100, ScenarioContent}

ScenarioMentors == {[id |-> "m1", baseRate |-> 10], [id |-> "m1"]}

InitScenario ==
    /\ mentor \in ScenarioMentors
    /\ tasks = <<>>
    /\ pc = "idle"
    /\ locals = NoLocals
    /\ result = NoResult
    /\ AppNotModelled

NextScenario ==
    \/ \E task \in ScenarioTasks : AddTask(task)
    \/ Calculate

SpecScenario == InitScenario /\ [][NextScenario]_vars

(***************************************************************************)
(* The same machine on partial documents: every one of the five fields the *)
(* calculator reads is missing, zero (the empty string for chapterName),   *)
(* or set.  A missing taskType is a document that is not a Lecture.        *)
(***************************************************************************)
TaskFields == {"taskType", "chapterName", "minutes", "rating", "chaptersCompleted"}

FullTasks ==
    [taskType : {"Lecture", "Content"}, chapterName : {"", "Ch1"},
     minutes : {0, 60}, rating : {0, 400}, chaptersCompleted : {0, 2000}]

PartialTasks == {[f \in D |-> t[f]] : t \in FullTasks, D \in SUBSET TaskFields}

InitPartial ==
    /\ mentor \in MentorInputs
    /\ tasks = <<>>
    /\ pc = "idle"
    /\ locals = NoLocals
    /\ result = NoResult
    /\ AppNotModelled

AddPartialTask(task) ==
    /\ Len(tasks) < MaxPartialTasks
    /\ tasks' = <<task>> \o tasks
    /\ pc' = "idle"
    /\ locals' = NoLocals
    /\ result' = NoResult
    /\ UNCHANGED <<mentor, appVars>>

NextPartial ==
    \/ \E task \in PartialTasks : AddPartialTask(task)
    \/ Calculate

SpecPartial == InitPartial /\ [][NextPartial]_vars

(***************************************************************************)
(* The same machine on lectures rated as the form rates them, from 1 to 5  *)
(* in steps of 0.1 (lines 843-851): three lectures of three chapters rated *)
(* 1.1, 1.8 and 4.6, whose decimal sum is 7.5, and a one-minute lecture    *)
(* without a rating.                                                       *)
(***************************************************************************)
RatingTasks ==
    {[taskType |-> "Lecture", chapterName |-> "Ch1", minutes |-> 60, rating |-> 110],
     [taskType |-> "Lecture", chapterName |-> "Ch2", minutes |-> 60, rating |-> 180],
     [taskType |-> "Lecture", chapterName |-> "Ch3", minutes |-> 60, rating |-> 460],
     [taskType |-> "Lecture", chapterName |-> "Ch3", minutes |-> 1]}

InitRatings ==
    /\ mentor \in MentorInputs
    /\ tasks = <<>>
    /\ pc = "idle"
    /\ locals = NoLocals
    /\ result = NoResult
    /\ AppNotModelled

AddRatingTask(task) ==
    /\ Len(tasks) < MaxRatingTasks
    /\ tasks' = <<task>> \o tasks
    /\ pc' = "idle"
    /\ locals' = NoLocals
    /\ result' = NoResult
    /\ UNCHANGED <<mentor, appVars>>

NextRatings ==
    \/ \E task \in RatingTasks : AddRatingTask(task)
    \/ Calculate

SpecRatings == InitRatings /\ [][NextRatings]_vars

(***************************************************************************)
(* MentorProfile, lines 875-901 and 1034-1045.  Here tasks is the whole    *)
(* tasks state, the documents of every mentor, each with a mentorId and,   *)
(* unless its server timestamp is still pending, a date (lines 296-300);   *)
(* mentor is the mentor the profile shows; locals are the constants of one *)
(* render and result what it displays.                                     *)
(*                                                                         *)
(* An instant is a number of hours of local time counted from the midnight *)
(* that began a Sunday; daylight-saving shifts are left out.               *)
(***************************************************************************)
\* Date.prototype.getDay (line 892): 0 is Sunday
getDay(t) == (t \div 24) % 7

\* lines 893-894: date.setDate(diff) moves the date to the Monday of its
\* week and keeps the time of day
WeekStartInstant(t) ==
    LET day == getDay(t)
    IN t + (IF day = 0 THEN -6 ELSE 1 - day) * 24

\* the browser's zone, in hours east of UTC
ZoneOffset == 5

\* line 894: toISOString().split('T')[0], the calendar day of the instant in
\* UTC, as a day number
toISODate(t) == (t - ZoneOffset) \div 24

weekStart(task) == toISODate(WeekStartInstant(task.date))

HasDate(task) == Has(task, "date")

\* Variant of InLast90Days that admits the instant 90 days ago itself.
InLast90Days_Inclusive(task, ninetyDaysAgo) ==
    HasDate(task) /\ task.date >= ninetyDaysAgo

\* line 881: t.date && t.date > ninetyDaysAgo
InLast90Days(task, ninetyDaysAgo) ==
    HasDate(task) /\ task.date > ninetyDaysAgo

RECURSIVE Filter(_, _)
\* Array.prototype.filter with the set of the elements to keep
Filter(ts, keep) ==
    IF ts = <<>> THEN <<>>
    ELSE (IF Head(ts) \in keep THEN <<Head(ts)>> ELSE <<>>) \o Filter(Tail(ts), keep)

BucketIndex(acc, key) ==
    IF \E i \in 1..Len(acc) : acc[i].weekStart = key
    THEN CHOOSE i \in 1..Len(acc) : acc[i].weekStart = key
    ELSE 0

\* lines 888-900: the reducer callback of tasksByWeek
WeekReducer(acc, task) ==
    IF ~HasDate(task) THEN acc
    ELSE LET key == weekStart(task)
             acc1 == IF BucketIndex(acc, key) = 0
                     THEN Append(acc, [weekStart |-> key, tasks |-> <<>>])
                     ELSE acc
             i == BucketIndex(acc1, key)
         IN [acc1 EXCEPT ![i].tasks = Append(@, task)]

RECURSIVE WeekReduce(_, _)
WeekReduce(ts, acc) ==
    IF ts = <<>> THEN acc ELSE WeekReduce(Tail(ts), WeekReducer(acc, Head(ts)))

RECURSIVE SortReverse(_)
\* line 1035: Object.keys(tasksByWeek).sort().reverse()
SortReverse(keys) ==
    IF keys = {} THEN <<>>
    ELSE LET last == CHOOSE k \in keys : \A j \in keys : j <= k
         IN <<last>> \o SortReverse(keys \ {last})

\* lines 876-901 and 1035-1037 at the instant now
MentorProfileLocals(all, m, now) ==
    LET mentorTasks == Filter(all, {t \in Range(all) : t.mentorId = m.id})
        ninetyDaysAgo == now - 90 * 24
        tasksLast90Days ==
            Filter(mentorTasks,
                   {t \in Range(mentorTasks) : InLast90Days(t, ninetyDaysAgo)})
        tasksByWeek == WeekReduce(tasksLast90Days, <<>>)
    IN [now |-> now,
        mentorTasks |-> mentorTasks,
        ninetyDaysAgo |-> ninetyDaysAgo,
        tasksLast90Days |-> tasksLast90Days,
        tasksByWeek |-> tasksByWeek]

MentorProfileView(l, m) ==
    LET keys == SortReverse({l.tasksByWeek[i].weekStart : i \in 1..Len(l.tasksByWeek)})
    IN [summary90Days |-> calculatePayment(l.tasksLast90Days, m),
        overallSummary |-> calculatePayment(l.mentorTasks, m),
        weeks |->
            [n \in 1..Len(keys) |->
                LET weeklyTasks ==
                        l.tasksByWeek[BucketIndex(l.tasksByWeek, keys[n])].tasks
                IN [weekStart |-> keys[n],
                    weeklyTasks |-> weeklyTasks,
                    weeklySummary |-> calculatePayment(weeklyTasks, m)]]]

\* what a task document says besides its mentor and its date
ProfileWork ==
    {[taskType |-> "Lecture", chapterName |-> "Ch1", minutes |-> 60, rating |-> 450],
     [taskType |-> "Lecture", chapterName |-> "Ch2", minutes |-> 200],
     [taskType |-> "Content", chaptersCompleted |-> 1000]}

\* The renders happen at hour 12 or 13 of day 100, a Tuesday; 90 days before
\* the first is instant 252.  The dates: long ago, 252 itself, the hour after
\* it, the Tuesday a week before, the Monday of the week at 03:00 (whose UTC
\* day is the Sunday), the Tuesday of the render at 10:00, and a day ahead.
NowInputs == {2412, 2413}

DateInputs == {200, 252, 253, 2250, 2379, 2410, 2440}

WithFields(work, extra) ==
    [f \in DOMAIN work \cup DOMAIN extra |->
        IF f \in DOMAIN extra THEN extra[f] ELSE work[f]]

ProfileTasks ==
    {WithFields(w, [mentorId |-> "m1", date |-> d]) :
        w \in ProfileWork, d \in DateInputs}
    \cup {WithFields(w, [mentorId |-> "m1"]) : w \in ProfileWork}
    \cup {[mentorId |-> "m2", date |-> 2410, taskType |-> "Lecture",
           chapterName |-> "Ch1", minutes |-> 60, rating |-> 450],
          [mentorId |-> "m2", taskType |-> "Content", chaptersCompleted |-> 1000]}

\* line 301: sort((a, b) => b.date - a.date); the dated documents come out
\* newest first, equal dates in either order, and a document without a date
\* (the comparator gives NaN) anywhere
SortedByDate(ts) ==
    \A i, j \in 1..Len(ts) :
        (i < j /\ HasDate(ts[i]) /\ HasDate(ts[j])) => ts[i].date >= ts[j].date

InitProfile ==
    /\ mentor \in MentorInputs
    /\ tasks = <<>>
    /\ pc = "idle"
    /\ locals = NoLocals
    /\ result = NoResult
    /\ AppNotModelled

\* the tasks listener delivers the collection with one more document
AddProfileTask(task, pos) ==
    /\ Len(tasks) < MaxProfileTasks
    /\ pos \in 1..(Len(tasks) + 1)
    /\ tasks' = SubSeq(tasks, 1, pos - 1) \o <<task>> \o SubSeq(tasks, pos, Len(tasks))
    /\ SortedByDate(tasks')
    /\ pc' = "idle"
    /\ locals' = NoLocals
    /\ result' = NoResult
    /\ UNCHANGED <<mentor, appVars>>

\* MentorProfile renders at the instant now
RenderProfile(now) ==
    /\ pc = "idle"
    /\ locals' = MentorProfileLocals(tasks, mentor, now)
    /\ result' = MentorProfileView(MentorProfileLocals(tasks, mentor, now), mentor)
    /\ pc' = "returned"
    /\ UNCHANGED <<mentor, tasks, appVars>>

NextProfile ==
    \/ \E task \in ProfileTasks, pos \in 1..(MaxProfileTasks + 1) :
          AddProfileTask(task, pos)
    \/ \E now \in NowInputs : RenderProfile(now)

SpecProfile == InitProfile /\ [][NextProfile]_vars

(***************************************************************************)
(* The claims.  Their vocabulary is defined here from the task list alone, *)
(* without the calculator's own grouping.                                  *)
(***************************************************************************)
Returned == pc = "returned"

RECURSIVE SumOf(_, _)
\* the sum of f[x] over the x of the finite set S
SumOf(f, S) ==
    IF S = {} THEN 0
    ELSE LET x == CHOOSE y \in S : TRUE IN f[x] + SumOf(f, S \ {x})

TaskIdx == 1..Len(tasks)

LectureTyped(task) == Has(task, "taskType") /\ task.taskType = "Lecture"

\* taskType == "Lecture", minutes > 0 and a non-empty chapterName
IsIncludedLecture(task) ==
    /\ LectureTyped(task)
    /\ Has(task, "minutes") /\ task.minutes > 0
    /\ Has(task, "chapterName") /\ task.chapterName # ""

IncludedIdx == {i \in TaskIdx : IsIncludedLecture(tasks[i])}
GroupNames == {tasks[i].chapterName : i \in IncludedIdx}
GroupIdx(c) == {i \in IncludedIdx : tasks[i].chapterName = c}
MinutesAt == [i \in IncludedIdx |-> tasks[i].minutes]
GroupMinutes(c) == SumOf(MinutesAt, GroupIdx(c))

\* the list without its i-th record
Without(i) == SubSeq(tasks, 1, i - 1) \o SubSeq(tasks, i + 1, Len(tasks))

\* n is x ten-thousandths rounded to the nearest integer, halves up
IsRounded(n, x) == 10000 * n <= x + 5000 /\ x + 5000 < 10000 * (n + 1)

----------------------------------------------------------------------------
----------------------------------------------------------------------------
\* C2: M_freq is 1.2 if lecturesCount >= 3 and T_billable >= 180, otherwise
\* 1.0 if lecturesCount >= 2 and T_billable >= 120, otherwise 0.8; no other
\* value is returned.
C2_FrequencyModifier ==
    Returned =>
        LET n == result.lecturesCount
            t == result.T_billable
        IN /\ result.M_freq \in {120, 100, 80}
           /\ (n >= 3 /\ t >= 180) => result.M_freq = 120
           /\ (~(n >= 3 /\ t >= 180) /\ n >= 2 /\ t >= 120) => result.M_freq = 100
           /\ (~(n >= 3 /\ t >= 180) /\ ~(n >= 2 /\ t >= 120)) => result.M_freq = 80

\* the boundary (3, 180) gives 1.2
C2_Witness ==
    /\ Returned
    /\ result.lecturesCount = 3
    /\ result.T_billable = 180
    /\ result.M_freq = 120

----------------------------------------------------------------------------
\* C3: M_rate is 0.6 when averageRating < 2.5, 0.75 when
\* 2.5 <= averageRating <= 3.5, and 1.0 when averageRating > 3.5.
C3_QualityModifier ==
    Returned =>
        LET avg == locals.averageRating
        IN /\ avg.den > 0
           /\ (avg.num < 250 * avg.den) => result.M_rate = 60
           /\ (avg.num >= 250 * avg.den /\ avg.num <= 350 * avg.den)
                 => result.M_rate = 75
           /\ (avg.num > 350 * avg.den) => result.M_rate = 100

\* two ratings whose average is exactly 3.5 give 0.75
C3_Witness ==
    /\ Returned
    /\ locals.averageRating.den = 2
    /\ locals.averageRating.num = 700
    /\ result.averageRating = "3.50"
    /\ result.M_rate = 75

----------------------------------------------------------------------------
\* C4: averageRating is the sum of the present ratings of the included
\* Lecture records, pooled over all chapters, divided by their number;
\* records without a rating count in neither; with no rating it is 5.0.
RatedIdx ==
    {i \in IncludedIdx : Has(tasks[i], "rating") /\ tasks[i].rating # 0}

RatingAt == [i \in RatedIdx |-> tasks[i].rating]

C4_PooledAverage ==
    Returned =>
        LET avg == locals.averageRating
        IN IF RatedIdx = {}
           THEN avg.num = 500 * avg.den
           ELSE avg.num * Cardinality(RatedIdx) = SumOf(RatingAt, RatedIdx) * avg.den

\* 2.5 and 2.5 in one chapter, 4.5 in another: the pooled mean is 9.5 / 3,
\* the mean of the chapter means would be 3.5
C4_Witness ==
    /\ Returned
    /\ Cardinality(GroupNames) = 2
    /\ locals.averageRating.num = 950 /\ locals.averageRating.den = 3
    /\ result.averageRating = "3.17"

----------------------------------------------------------------------------
----------------------------------------------------------------------------
----------------------------------------------------------------------------
\* C7: R_minute is the supplied base rate, or 10 when that is falsy;
\* basePayLectures is T_billable * R_minute; P_final_lectures is
\* basePayLectures * M_rate * M_freq at full precision, rounded only in the
\* returned field.
RateSupplied == Has(mentor, "baseRate") /\ mentor.baseRate # 0

C7_LecturePay ==
    Returned =>
        LET pay == result.T_billable * result.R_minute
        IN /\ RateSupplied => result.R_minute = mentor.baseRate
           /\ ~RateSupplied => result.R_minute = 10
           /\ locals.R_minute = result.R_minute
           /\ locals.basePayLectures = pay * 10000
           /\ result.basePayLectures = pay
           /\ locals.P_final_lectures = pay * result.M_rate * result.M_freq
           /\ IsRounded(result.P_final_lectures, pay * result.M_rate * result.M_freq)

\* a supplied rate of 7 and 60 billable minutes at 0.6 and 0.8: 201.6 at full
\* precision, 202 returned
C7_Witness ==
    /\ Returned
    /\ RateSupplied
    /\ result.R_minute = 7
    /\ result.T_billable = 60
    /\ result.basePayLectures = 420
    /\ result.M_rate = 60 /\ result.M_freq = 80
    /\ locals.P_final_lectures = 2016000
    /\ result.P_final_lectures = 202

----------------------------------------------------------------------------
\* C8: P_final_other is 500 times the sum of chaptersCompleted over the
\* records whose taskType is not "Lecture", and totalChaptersCompleted is that
\* sum; a missing chaptersCompleted counts 0; the minutes, rating and
\* chapterName of such a record have no effect on any output.
OtherIdx == {i \in TaskIdx : ~LectureTyped(tasks[i])}

UnitsAt ==
    [i \in OtherIdx |->
        IF Has(tasks[i], "chaptersCompleted") THEN tasks[i].chaptersCompleted ELSE 0]

\* the record without its minutes, rating and chapterName
Stripped(task) ==
    [f \in DOMAIN task \ {"minutes", "rating", "chapterName"} |-> task[f]]

StrippedTasks ==
    [i \in TaskIdx |-> IF i \in OtherIdx THEN Stripped(tasks[i]) ELSE tasks[i]]

C8_OtherWorkPay ==
    Returned =>
        LET units == SumOf(UnitsAt, OtherIdx)
        IN /\ result.totalChaptersCompleted = units
           \* thousandths of a unit at 500 each, in ten-thousandths
           /\ locals.P_final_other = 500 * units * 10
           /\ IsRounded(result.P_final_other, 500 * units * 10)
           \* whole units: the returned field is the product itself
           /\ (units % 1000 = 0) => result.P_final_other * 1000 = 500 * units
           /\ result.CHAPTER_RATE = 500
           /\ calculatePayment(StrippedTasks, mentor) = result

\* a record with 4 units that also carries minutes, a rating and a
\* chapterName, next to a record without chaptersCompleted: exactly 2000
C8_Witness ==
    /\ Returned
    /\ \E i \in OtherIdx :
          /\ Has(tasks[i], "chaptersCompleted") /\ tasks[i].chaptersCompleted = 4000
          /\ Has(tasks[i], "minutes") /\ Has(tasks[i], "rating")
    /\ \E i \in OtherIdx : ~Has(tasks[i], "chaptersCompleted")
    /\ Cardinality(OtherIdx) = 2
    /\ result.totalChaptersCompleted = 4000
    /\ result.P_final_other = 2000

----------------------------------------------------------------------------
\* C9: the returned P_final is the rounded sum of the unrounded lecture pay
\* and the unrounded other pay, and it differs from the sum of the two
\* rounded fields by at most 1.
C9_TotalRounding ==
    Returned =>
        /\ locals.P_final = locals.P_final_lectures + locals.P_final_other
        /\ IsRounded(result.P_final, locals.P_final_lectures + locals.P_final_other)
        /\ result.P_final - (result.P_final_lectures + result.P_final_other)
               \in {-1, 0, 1}

\* both parts round up and their sum is one more than the rounded total
C9_Witness ==
    /\ Returned
    /\ locals.P_final_lectures % 10000 >= 5000
    /\ locals.P_final_other % 10000 = 5000
    /\ result.P_final = result.P_final_lectures + result.P_final_other - 1

----------------------------------------------------------------------------
\* C10: on an empty record list, for any base rate, every total is 0,
\* averageRating is "5.00", M_rate is 1.0 and M_freq is 0.8.
C10_EmptyList ==
    (Returned /\ tasks = <<>>) =>
        /\ result.P_final = 0
        /\ result.P_final_lectures = 0
        /\ result.P_final_other = 0
        /\ result.T_billable = 0
        /\ result.lecturesCount = 0
        /\ result.averageRating = "5.00"
        /\ result.M_rate = 100
        /\ result.M_freq = 80

\* the call on the empty list with a supplied rate
C10_Witness ==
    /\ Returned
    /\ tasks = <<>>
    /\ RateSupplied
    /\ result.R_minute = 7
    /\ result.averageRating = "5.00"

----------------------------------------------------------------------------
\* C11: with base rate 10, the two Lecture records of chapter Ch1 (150 min
\* rated 4, 100 min rated 4.5) and the Content record with 3 chaptersCompleted,
\* the call returns T_billable 240, averageRating 4.25, M_rate 1.0,
\* lecturesCount 2, M_freq 1.0, basePayLectures 2400, P_final_lectures 2400,
\* P_final_other 1500 and P_final 3900.
IsScenario ==
    /\ Len(tasks) = 3
    /\ {tasks[i] : i \in TaskIdx} = ScenarioTasks
    /\ Has(mentor, "baseRate") /\ mentor.baseRate = 10

C11_Scenario ==
    (Returned /\ IsScenario) =>
        /\ result.T_billable = 240
        /\ result.averageRating = "4.25"
        /\ result.M_rate = 100
        /\ result.lecturesCount = 2
        /\ result.M_freq = 100
        /\ result.basePayLectures = 2400
        /\ result.P_final_lectures = 2400
        /\ result.P_final_other = 1500
        /\ result.P_final = 3900

\* the scenario's records in the order the scenario lists them
C11_Witness ==
    /\ Returned
    /\ IsScenario
    /\ tasks = <<ScenarioLecture150, ScenarioLecture100, ScenarioContent>>
    /\ result.R_minute = 10
    /\ result.P_final = 3900

----------------------------------------------------------------------------
\* C12: calculatePayment never raises: on records with any of taskType,
\* chapterName, minutes, rating, chaptersCompleted missing or zero, and with
\* the base rate missing or zero, the call returns, the breakdown is
\* complete, a missing field counts as its zero value, and a malformed
\* record contributes nothing or the documented default (rating 5.0, rate 10).
BreakdownFields ==
    {"P_final", "P_final_lectures", "P_final_other", "T_billable",
     "totalChaptersCompleted", "R_minute", "M_rate", "M_freq", "averageRating",
     "lecturesCount", "basePayLectures", "CHAPTER_RATE"}

TwoDecimals ==
    {ToString(a) \o "." \o ToString(b) \o ToString(c) :
        a \in 0..5, b \in 0..9, c \in 0..9}

IsBreakdown(r) ==
    /\ DOMAIN r = BreakdownFields
    /\ \A f \in {"P_final", "P_final_lectures", "P_final_other", "T_billable",
                  "totalChaptersCompleted", "lecturesCount", "basePayLectures"} :
           r[f] \in Nat
    /\ r.R_minute \in Nat \ {0}
    /\ r.M_rate \in {60, 75, 100}
    /\ r.M_freq \in {80, 100, 120}
    /\ r.averageRating \in TwoDecimals
    /\ r.CHAPTER_RATE = 500

\* the record with its missing fields set to zero, the empty string for the
\* two text fields
ZeroFilled(task) ==
    [f \in TaskFields |->
        IF Has(task, f) THEN task[f]
        ELSE IF f \in {"taskType", "chapterName"} THEN "" ELSE 0]

ZeroFilledTasks == [i \in TaskIdx |-> ZeroFilled(tasks[i])]

\* a Lecture record without minutes or chapterName, or a record of another
\* type without chaptersCompleted
Malformed(task) ==
    \/ LectureTyped(task) /\ ~IsIncludedLecture(task)
    \/ ~LectureTyped(task)
          /\ (~Has(task, "chaptersCompleted") \/ task.chaptersCompleted = 0)

----------------------------------------------------------------------------
----------------------------------------------------------------------------
\* C15: in MentorProfile, summary90Days is calculatePayment, with the
\* mentor's baseRate, of exactly the mentor's tasks whose date is strictly
\* later than now - 90 days: tasks of other mentors, tasks at or before that
\* instant and tasks without a date are not in it; overallSummary is
\* calculatePayment of all of the mentor's tasks.
OfMentor(task) == task.mentorId = mentor.id

Dated(task) == Has(task, "date")

OwnTasks == SelectSeq(tasks, OfMentor)

WindowTasks ==
    SelectSeq(tasks, LAMBDA t : OfMentor(t) /\ Dated(t)
                                   /\ t.date > locals.now - 90 * 24)

C15_WindowedSummaries ==
    Returned =>
        /\ locals.tasksLast90Days = WindowTasks
        /\ result.summary90Days = calculatePayment(WindowTasks, mentor)
        /\ result.overallSummary = calculatePayment(OwnTasks, mentor)
        /\ \A t \in Range(locals.tasksLast90Days) :
               /\ OfMentor(t)
               /\ Dated(t)
               /\ t.date > locals.now - 90 * 24

\* a lecture of the mentor dated exactly 90 days before the render, next to
\* one dated an hour later: the second alone is in the window
C15_Witness ==
    /\ Returned
    /\ Len(tasks) = 2
    /\ \A i \in TaskIdx : OfMentor(tasks[i]) /\ IsIncludedLecture(tasks[i])
    /\ Dated(tasks[1]) /\ tasks[1].date = locals.now - 90 * 24 + 1
    /\ Dated(tasks[2]) /\ tasks[2].date = locals.now - 90 * 24
    /\ result.summary90Days.lecturesCount = 1
    /\ result.overallSummary.lecturesCount = 2

----------------------------------------------------------------------------
\* C16: the weekly breakdown shows how P_final sums up for the 90 days: every
\* task of the window is in exactly one week bucket, and the P_final of the
\* week buckets add up to the P_final of summary90Days.
WeekIdx == 1..Len(result.weeks)

\* how often the record t occurs in the sequence ts
Occurrences(t, ts) == Cardinality({i \in 1..Len(ts) : ts[i] = t})

EveryTaskInOneBucket ==
    \A t \in Range(locals.tasksLast90Days) :
        /\ Cardinality({n \in WeekIdx : t \in Range(result.weeks[n].weeklyTasks)}) = 1
        /\ \A n \in WeekIdx :
               t \in Range(result.weeks[n].weeklyTasks)
                  => Occurrences(t, result.weeks[n].weeklyTasks)
                         = Occurrences(t, locals.tasksLast90Days)

WeeklyP_final == [n \in WeekIdx |-> result.weeks[n].weeklySummary.P_final]

C16_WeeklySumsToWindow ==
    Returned =>
        /\ EveryTaskInOneBucket
        /\ SumOf(WeeklyP_final, WeekIdx) = result.summary90Days.P_final

----------------------------------------------------------------------------
\* C17: adding a record whose taskType is not "Lecture" leaves T_billable,
\* lecturesCount, averageRating, M_rate, M_freq, R_minute, basePayLectures and
\* P_final_lectures unchanged; totalChaptersCompleted grows by the record's
\* chaptersCompleted and P_final_other by exactly 500 times it (at full
\* precision, and in the returned field when the units are whole).
LectureFields ==
    {"T_billable", "lecturesCount", "averageRating", "M_rate", "M_freq",
     "R_minute", "basePayLectures", "P_final_lectures"}

WholeUnits == \A i \in OtherIdx : UnitsAt[i] % 1000 = 0

C17_OtherRecordAdded ==
    Returned =>
        \A i \in OtherIdx :
            LET beforeLocals == calculatePaymentLocals(Without(i), mentor)
                before == ReturnValue(beforeLocals)
            IN /\ \A f \in LectureFields : result[f] = before[f]
               /\ locals.P_final_lectures = beforeLocals.P_final_lectures
               /\ result.totalChaptersCompleted
                      = before.totalChaptersCompleted + UnitsAt[i]
               /\ locals.P_final_other
                      = beforeLocals.P_final_other + 500 * UnitsAt[i] * 10
               /\ WholeUnits =>
                      result.P_final_other * 1000
                          = before.P_final_other * 1000 + 500 * UnitsAt[i]

\* a TestSeries record with 4 units, a chapterName, minutes and a rating is
\* the newest of a list whose lectures earn something
C17_Witness ==
    /\ Returned
    /\ Len(tasks) = 3
    /\ ~LectureTyped(tasks[1])
    /\ UnitsAt[1] = 4000
    /\ Has(tasks[1], "minutes") /\ Has(tasks[1], "chapterName")
    /\ Cardinality(IncludedIdx) = 2
    /\ result.P_final_lectures > 0
    /\ result.P_final_other = 2000

----------------------------------------------------------------------------
----------------------------------------------------------------------------
\* C19: adding an included Lecture record that carries no rating never
\* decreases T_billable, lecturesCount, M_freq, basePayLectures or P_final,
\* and leaves averageRating and M_rate unchanged.
UnratedIdx == IncludedIdx \ RatedIdx

C19_UnratedLectureAdded ==
    Returned =>
        \A i \in UnratedIdx :
            LET before == calculatePayment(Without(i), mentor)
            IN /\ result.T_billable >= before.T_billable
               /\ result.lecturesCount >= before.lecturesCount
               /\ result.M_freq >= before.M_freq
               /\ result.basePayLectures >= before.basePayLectures
               /\ result.P_final >= before.P_final
               /\ result.averageRating = before.averageRating
               /\ result.M_rate = before.M_rate

----------------------------------------------------------------------------
\* C20: the result does not depend on the order of the records: for every
\* list and every permutation of it, every field of the breakdown is the
\* same.
IndexPermutations(n) ==
    {p \in [1..n -> 1..n] : \A i, j \in 1..n : p[i] = p[j] => i = j}

Permuted(p) == [i \in TaskIdx |-> tasks[p[i]]]

C20_OrderIndependent ==
    Returned =>
        \A p \in IndexPermutations(Len(tasks)) :
            calculatePayment(Permuted(p), mentor) = result

----------------------------------------------------------------------------
\* C21: for every record list with non-negative minutes,
\* 0 <= T_billable <= 240 * (number of distinct chapterName values among the
\* included Lecture records), and T_billable <= the total minutes of the
\* included Lecture records.
NonNegativeMinutes ==
    \A i \in TaskIdx : Has(tasks[i], "minutes") => tasks[i].minutes >= 0

C21_BillableBounds ==
    (Returned /\ NonNegativeMinutes) =>
        /\ 0 <= result.T_billable
        /\ result.T_billable <= 240 * Cardinality(GroupNames)
        /\ result.T_billable <= SumOf(MinutesAt, IncludedIdx)

\* three lectures of one chapter, 400 minutes in all: the first bound is met
\* and the second is not
C21_Witness ==
    /\ Returned
    /\ NonNegativeMinutes
    /\ Cardinality(IncludedIdx) = 3
    /\ Cardinality(GroupNames) = 1
    /\ SumOf(MinutesAt, IncludedIdx) = 400
    /\ result.T_billable = 240

(***************************************************************************)
(* The App component, lines 152-399.  app holds its hooks' state under     *)
(* their names, null being the string "null"; store.mentors and            *)
(* store.tasks are the documents of the two collections, each a record     *)
(* with its document id; a call in flight is a record with the name of the *)
(* function (op), the await it is suspended at (at) and the values its     *)
(* closure holds.  The calculator's variables are left alone.              *)
(***************************************************************************)
CalculatorNotModelled ==
    /\ mentor = <<>>
    /\ tasks = <<>>
    /\ pc = "idle"
    /\ locals = NoLocals
    /\ result = NoResult

\* lines 316, 347, 368, 388: !db || !userId
NotSignedIn == app.db = "null" \/ app.userId = "null"

RECURSIVE SeqOf(_)
\* snapshot.docs.map(...) (lines 284, 296): the documents as an array, here in
\* the order of their ids
SeqOf(docs) ==
    IF docs = {} THEN <<>>
    ELSE LET first == CHOOSE d \in docs : \A e \in docs : d.id <= e.id
         IN <<first>> \o SeqOf(docs \ {first})

\* a call that has returned stays in calls as a record of how it ended:
\* "returned" at its guard, "failed" in its catch, "done" otherwise
Running(c) == c.at \notin {"returned", "done", "failed"}

\* lines 514-528: the loading screen or the error screen is all that is
\* rendered while isLoading or error is set; the tabs, lists and modals, and
\* with them every button and form, are rendered otherwise
Screen ==
    IF app.isLoading THEN "loading"
    ELSE IF app.error # "" THEN "error"
    ELSE "main"

MainScreen == Screen = "main"

(***************************************************************************)
(* deleteMentor (lines 366-384) among addTask calls (lines 387-399) and    *)
(* the deliveries of the tasks listener (lines 295-302).  The mentors 1    *)
(* and 2 exist  and the user is signed in; a task document is its id and   *)
(* its mentorId.                                                           *)
(***************************************************************************)
DeleteMentorIds == {1, 2}

InitDelete ==
    /\ CalculatorNotModelled
    /\ store = [mentors |-> {[id |-> m] : m \in DeleteMentorIds},
                tasks |-> {},
                added |-> 0, version |-> 0]
    /\ app = [db |-> "firestore", userId |-> "u1", isLoading |-> FALSE,
              error |-> "",
              mentors |-> SeqOf({[id |-> m] : m \in DeleteMentorIds}),
              tasks |-> <<>>]
    /\ calls = {}

\* addTask(taskData) as call number n: it returns at its guard or runs up to
\* its await addDoc (lines 388-394)
addTask(taskData, n) ==
    [op |-> "addTask", at |-> IF NotSignedIn THEN "returned" ELSE "addDoc",
     taskData |-> taskData, mentorId |-> taskData.mentorId, n |-> n]

\* TaskModal submits for the mentor it was opened for; of the form's data
\* the mentorId is kept here
AddTaskCall(m) ==
    /\ MainScreen
    /\ \E i \in 1..Len(app.mentors) : app.mentors[i].id = m
    /\ Cardinality({c \in calls : c.op = "addTask"}) < MaxAddedTasks
    /\ calls' = calls \cup {addTask([mentorId |-> m], Cardinality(calls) + 1)}
    /\ UNCHANGED <<app, store, calcVars>>

\* await addDoc settles: the document is written under a new id, or the
\* write is rejected and line 397 sets the error
AddDocSettles(c, ok) ==
    /\ c \in calls /\ c.op = "addTask" /\ c.at = "addDoc"
    /\ IF ok
       THEN /\ store' = [store EXCEPT
                   !.tasks = @ \cup
                       {WithFields(c.taskData, [id |-> store.added + 1,
                                                submittedBy |-> app.userId])},
                   !.added = @ + 1, !.version = @ + 1]
            /\ calls' = (calls \ {c}) \cup {[c EXCEPT !.at = "done"]}
            /\ UNCHANGED app
       ELSE /\ app' = [app EXCEPT !.error = "Failed to add task."]
            /\ calls' = (calls \ {c}) \cup {[c EXCEPT !.at = "failed"]}
            /\ UNCHANGED store
    /\ UNCHANGED calcVars

\* lines 295-302: the tasks listener delivers the collection
TasksSnapshot ==
    /\ app.tasks # SeqOf(store.tasks)
    /\ app' = [app EXCEPT !.tasks = SeqOf(store.tasks)]
    /\ UNCHANGED <<store, calls, calcVars>>

\* lines 283-290: the mentors listener delivers the collection
MentorsSnapshot ==
    /\ app.mentors # SeqOf(store.mentors)
    /\ app' = [app EXCEPT !.mentors = SeqOf(store.mentors)]
    /\ UNCHANGED <<store, calls, calcVars>>

\* The Delete button of a mentor on screen (line 647): deleteMentor runs up
\* to its first await (lines 368-371), unless the user is not signed in or
\* does not confirm.  The callback is the one of the latest render, so the
\* tasks of line 374 are the tasks state of this moment (line 384).
DeleteMentorCall(m, confirmed) ==
    /\ MainScreen
    /\ \E i \in 1..Len(app.mentors) : app.mentors[i].id = m
    /\ ~\E c \in calls : c.op = "deleteMentor" /\ c.mentorId = m
    /\ IF ~NotSignedIn /\ ~confirmed
       THEN UNCHANGED calls
       ELSE calls' = calls \cup
               {[op |-> "deleteMentor",
                 at |-> IF NotSignedIn THEN "returned" ELSE "deleteMentorDoc",
                 mentorId |-> m, tasks |-> app.tasks, tasksToDelete |-> <<>>,
                 n |-> Cardinality(calls) + 1]}
    /\ UNCHANGED <<app, store, calcVars>>

\* line 374
TasksToDelete(ts, m) == SelectSeq(ts, LAMBDA t : t.mentorId = m)

\* line 371 settles: the mentor document is gone and line 374 picks the
\* tasks to delete, or the delete is rejected (line 382)
DeleteMentorDocSettles(c, ok) ==
    /\ c \in calls /\ c.op = "deleteMentor" /\ c.at = "deleteMentorDoc"
    /\ IF ok
       THEN LET todo == TasksToDelete(c.tasks, c.mentorId)
            IN /\ store' = [store EXCEPT
                      !.mentors = {d \in @ : d.id # c.mentorId},
                      !.version = @ + 1]
               /\ calls' = (calls \ {c}) \cup
                      {[c EXCEPT !.tasksToDelete = todo,
                                 !.at = IF todo = <<>> THEN "done"
                                        ELSE "deleteTaskDoc"]}
               /\ UNCHANGED app
       ELSE /\ app' = [app EXCEPT !.error = "Failed to delete mentor."]
            /\ calls' = (calls \ {c}) \cup {[c EXCEPT !.at = "failed"]}
            /\ UNCHANGED store
    /\ UNCHANGED calcVars

\* line 376 settles for the next task of the loop of line 375
DeleteTaskDocSettles(c, ok) ==
    /\ c \in calls /\ c.op = "deleteMentor" /\ c.at = "deleteTaskDoc"
    /\ IF ok
       THEN LET rest == Tail(c.tasksToDelete)
            IN /\ store' = [store EXCEPT
                      !.tasks = {d \in @ : d.id # Head(c.tasksToDelete).id},
                      !.version = @ + 1]
               /\ calls' = (calls \ {c}) \cup
                      {[c EXCEPT !.tasksToDelete = rest,
                                 !.at = IF rest = <<>> THEN "done"
                                        ELSE "deleteTaskDoc"]}
               /\ UNCHANGED app
       ELSE /\ app' = [app EXCEPT !.error = "Failed to delete mentor."]
            /\ calls' = (calls \ {c}) \cup {[c EXCEPT !.at = "failed"]}
            /\ UNCHANGED store
    /\ UNCHANGED calcVars

NextDelete ==
    \/ \E m \in DeleteMentorIds : AddTaskCall(m)
    \/ \E c \in calls, ok \in BOOLEAN : AddDocSettles(c, ok)
    \/ TasksSnapshot
    \/ MentorsSnapshot
    \/ \E m \in DeleteMentorIds, confirmed \in BOOLEAN : DeleteMentorCall(m, confirmed)
    \/ \E c \in calls, ok \in BOOLEAN : DeleteMentorDocSettles(c, ok)
    \/ \E c \in calls, ok \in BOOLEAN : DeleteTaskDocSettles(c, ok)

SpecDelete == InitDelete /\ [][NextDelete]_vars

----------------------------------------------------------------------------
\* C22: once a confirmed deleteMentor(m) has completed without error, the
\* store holds neither the mentor m nor any task whose mentorId is m,
\* whatever addTask calls for m and deliveries of the tasks listener it was
\* interleaved with.
DeleteCompleted(m) ==
    \E c \in calls : c.op = "deleteMentor" /\ c.mentorId = m /\ c.at = "done"

C22_DeleteMentorDeletesAll ==
    [][\A m \in DeleteMentorIds :
          (~DeleteCompleted(m) /\ DeleteCompleted(m)') =>
              /\ \A d \in store'.mentors : d.id # m
              /\ \A t \in store'.tasks : t.mentorId # m]_vars

----------------------------------------------------------------------------
(***************************************************************************)
(* The teams list and the mentors' teams: handleAddTeam, handleDeleteTeam, *)
(* saveTeams, updateMentor (lines 315-363), the mentor form (lines         *)
(* 404-418, 531-558) and the teams and mentors listeners (lines 274-290).  *)
(* A mentor document is its id and the five fields updateMentor writes;    *)
(* lastUpdated is left out.                                                *)
(***************************************************************************)
\* lines 163-169
defaultTeams ==
    <<"Lecture Team", "Content Team (Chapterwise)", "Test Series Team",
      "Doubt Session Team", "Mentorship Team">>

\* lines 184, 355, 415
PlaceholderPhoto == "https://placehold.co/100x100/4F46E5/FFFFFF?text=P4I"

\* Array.prototype.includes
Includes(list, x) == \E i \in 1..Len(list) : list[i] = x

\* list.filter(t => t !== x), lines 335, 340
FilterOut(list, x) == SelectSeq(list, LAMBDA t : t # x)

\* the names typed into the new-team field (line 675)
TeamNameInputs == {"", "Alumni Team", "Lecture Team"}

\* the teams whose delete button is pressed (line 693)
DeleteTeamInputs == {"Lecture Team", "Alumni Team"}

\* the teams toggled in the mentor form (lines 545-552)
ToggleInputs == {"Lecture Team", "Alumni Team"}

\* the base rates typed into the mentor form (line 612); 0 stands for every
\* value that || takes for false
BaseRateInputs == {0, 15}

\* the calls the user has started, as opposed to those handleDeleteTeam starts
Operations == {c \in calls : Has(c, "by") /\ c.by = 0}

InitTeams ==
    /\ CalculatorNotModelled
    /\ store = [teams |-> defaultTeams, mentors |-> {}, added |-> 0, version |-> 0]
    /\ app = [db |-> "firestore", userId |-> "u1", isLoading |-> FALSE,
              error |-> "", teams |-> defaultTeams, mentors |-> <<>>,
              newTeamName |-> "", baseRatePerMinute |-> 10]
    /\ calls = {}

\* line 675
SetNewTeamName(name) ==
    /\ MainScreen
    /\ app.newTeamName # name
    /\ app' = [app EXCEPT !.newTeamName = name]
    /\ UNCHANGED <<store, calls, calcVars>>

\* saveTeams up to its await setDoc (lines 315-319), called by the call
\* numbered by, as call number n
SaveTeamsCall(newTeams, n, by) ==
    {[op |-> "saveTeams", at |-> IF NotSignedIn THEN "returned" ELSE "setDoc",
      newTeams |-> newTeams, n |-> n, by |-> by]}

\* Variant of handleAddTeam without the includes test.
handleAddTeam_NoIncludes ==
    /\ MainScreen
    /\ app.newTeamName # ""
    /\ Cardinality(Operations) < MaxTeamOperations
    /\ calls' = calls \cup
           SaveTeamsCall(Append(app.teams, app.newTeamName),
                         Cardinality(calls) + 1, 0)
    /\ UNCHANGED <<app, store, calcVars>>

\* lines 329-333; the button is disabled while newTeamName is empty (line 679)
handleAddTeam ==
    /\ MainScreen
    /\ app.newTeamName # ""
    /\ Cardinality(Operations) < MaxTeamOperations
    /\ IF app.newTeamName # "" /\ ~Includes(app.teams, app.newTeamName)
       THEN calls' = calls \cup
               SaveTeamsCall(Append(app.teams, app.newTeamName),
                             Cardinality(calls) + 1, 0)
       ELSE UNCHANGED calls
    /\ UNCHANGED <<app, store, calcVars>>

\* Variant of SaveTeamsSettles that clears the error after a successful save.
SaveTeamsSettles_ClearsError(c, ok) ==
    /\ c \in calls /\ c.op = "saveTeams" /\ c.at = "setDoc"
    /\ IF ok
       THEN /\ store' = WithFields(store, [teams |-> c.newTeams,
                                               version |-> store.version + 1])
            /\ app' = [app EXCEPT !.teams = c.newTeams, !.newTeamName = "",
                                  !.error = ""]
            /\ calls' = (calls \ {c}) \cup {[c EXCEPT !.at = "done"]}
       ELSE /\ app' = [app EXCEPT !.error = "Failed to save teams."]
            /\ calls' = (calls \ {c}) \cup {[c EXCEPT !.at = "failed"]}
            /\ UNCHANGED store
    /\ UNCHANGED calcVars

\* lines 319-325: await setDoc settles
SaveTeamsSettles(c, ok) ==
    /\ c \in calls /\ c.op = "saveTeams" /\ c.at = "setDoc"
    /\ IF ok
       THEN /\ store' = WithFields(store, [teams |-> c.newTeams,
                                               version |-> store.version + 1])
            /\ app' = [app EXCEPT !.teams = c.newTeams, !.newTeamName = ""]
            /\ calls' = (calls \ {c}) \cup {[c EXCEPT !.at = "done"]}
       ELSE /\ app' = [app EXCEPT !.error = "Failed to save teams."]
            /\ calls' = (calls \ {c}) \cup {[c EXCEPT !.at = "failed"]}
            /\ UNCHANGED store
    /\ UNCHANGED calcVars

\* x || d for a number x
OrDefault(x, d) == IF x = 0 THEN d ELSE x

\* updateMentor up to its await setDoc (lines 347-357): the document id is
\* mentorData.id or a new one, the fields are those of lines 352-355
UpdateMentorCall(mentorData, newId, n, by) ==
    {[op |-> "updateMentor", at |-> IF NotSignedIn THEN "returned" ELSE "setDoc",
      id |-> IF Has(mentorData, "id") THEN mentorData.id ELSE newId,
      data |-> [name |-> mentorData.name,
                email |-> mentorData.email,
                baseRate |-> OrDefault(mentorData.baseRate, 10),
                teams |-> mentorData.teams,
                photoURL |-> IF mentorData.photoURL = "" THEN PlaceholderPhoto
                             ELSE mentorData.photoURL],
      n |-> n, by |-> by]}

\* setDoc(ref, data, {merge: true}), line 357: the fields of data replace
\* those of the document, which is created if it does not exist
SetDocMerge(docs, id, data) ==
    LET old == {d \in docs : d.id = id}
        kept == IF old = {} THEN [id |-> id] ELSE CHOOSE d \in old : TRUE
        fields == DOMAIN kept \cup DOMAIN data
    IN {d \in docs : d.id # id} \cup
       {[f \in fields |-> IF f \in DOMAIN data THEN data[f] ELSE kept[f]]}

\* lines 357-362: await setDoc settles
UpdateMentorSettles(c, ok) ==
    /\ c \in calls /\ c.op = "updateMentor" /\ c.at = "setDoc"
    /\ IF ok
       THEN /\ store' = [store EXCEPT
                   !.mentors = SetDocMerge(@, c.id, c.data),
                   !.version = @ + 1]
            /\ calls' = (calls \ {c}) \cup {[c EXCEPT !.at = "done"]}
            /\ UNCHANGED app
       ELSE /\ app' = [app EXCEPT !.error = "Failed to save mentor."]
            /\ calls' = (calls \ {c}) \cup {[c EXCEPT !.at = "failed"]}
            /\ UNCHANGED store
    /\ UNCHANGED calcVars

\* lines 545-552
handleTeamToggle(mentorData, teamName) ==
    [mentorData EXCEPT
        !.teams = IF Includes(@, teamName) THEN FilterOut(@, teamName)
                  ELSE Append(@, teamName)]

\* lines 409-416
NewMentorData ==
    [name |-> "", email |-> "", baseRate |-> app.baseRatePerMinute,
     teams |-> <<>>, photoURL |-> PlaceholderPhoto]

\* The mentor form, opened for a new mentor (handleNewMentor) or for one of
\* the list (handleEditMentor, line 1218), is filled in and submitted
\* (lines 554-557): the name is typed for a new mentor, the base rate is
\* typed or left, one team shown in the form is toggled or none.
SubmitMentorForm(mentorData, baseRate, toggled) ==
    /\ MainScreen
    /\ Cardinality(Operations) < MaxTeamOperations
    /\ LET named == IF Has(mentorData, "id") THEN mentorData
                    ELSE [mentorData EXCEPT !.name = "Asha"]
           rated == IF baseRate = -1 THEN named
                    ELSE [named EXCEPT !.baseRate = baseRate]
           formData == IF Includes(app.teams, toggled)
                       THEN handleTeamToggle(rated, toggled)
                       ELSE rated
       IN calls' = calls \cup
             UpdateMentorCall(formData, store.added + 1, Cardinality(calls) + 1, 0)
    /\ store' = [store EXCEPT
           !.added = IF Has(mentorData, "id") \/ NotSignedIn THEN @ ELSE @ + 1]
    /\ UNCHANGED <<app, calcVars>>

\* lines 334-343.  The record of the call keeps, for the statements about
\* it, the documents stored when it was made.
handleDeleteTeam(teamToDelete) ==
    /\ MainScreen
    /\ Includes(app.teams, teamToDelete)
    /\ Cardinality(Operations) < MaxTeamOperations
    /\ LET n == Cardinality(calls) + 1
           newTeams == FilterOut(app.teams, teamToDelete)
           selected == {i \in 1..Len(app.mentors) :
                           Includes(app.mentors[i].teams, teamToDelete)}
           updates ==
               UNION {UpdateMentorCall(
                          [app.mentors[i] EXCEPT
                              !.teams = FilterOut(@, teamToDelete)],
                          0, n + 1 + i, n) : i \in selected}
       IN calls' = calls \cup
             {[op |-> "handleDeleteTeam", at |-> "done",
               teamToDelete |-> teamToDelete, stored |-> store,
               n |-> n, by |-> 0]}
             \cup SaveTeamsCall(newTeams, n + 1, n)
             \cup updates
    /\ UNCHANGED <<app, store, calcVars>>

\* lines 274-279: the teams listener delivers the teams document, if it
\* exists
TeamsSnapshot ==
    /\ Has(store, "teams")
    /\ app.teams # store.teams
    /\ app' = [app EXCEPT !.teams = store.teams]
    /\ UNCHANGED <<store, calls, calcVars>>

\* saveTeams is the only writer of the teams document here and sets the
\* teams state with the list it wrote, so the teams listener has nothing to
\* deliver; it acts in SpecApp, where checkAndSetDefaultTeams writes.
NextTeams ==
    \/ \E name \in TeamNameInputs : SetNewTeamName(name)
    \/ handleAddTeam
    \/ \E c \in calls, ok \in BOOLEAN : SaveTeamsSettles(c, ok)
    \/ \E i \in 0..Len(app.mentors), baseRate \in BaseRateInputs \cup {-1},
          toggled \in ToggleInputs \cup {""} :
          SubmitMentorForm(IF i = 0 THEN NewMentorData ELSE app.mentors[i],
                           baseRate, toggled)
    \/ \E c \in calls, ok \in BOOLEAN : UpdateMentorSettles(c, ok)
    \/ \E teamToDelete \in DeleteTeamInputs : handleDeleteTeam(teamToDelete)
    \/ MentorsSnapshot

SpecTeams == InitTeams /\ [][NextTeams]_vars

----------------------------------------------------------------------------
\* the writes started by the call h of handleDeleteTeam
WritesOf(h) == {c \in calls : Has(c, "by") /\ c.by = h.n}

\* every write h started has succeeded, and nothing else was written since h
\* was called
DeleteTeamCompleted(h) ==
    /\ h.op = "handleDeleteTeam"
    /\ \A c \in WritesOf(h) : c.at = "done"
    /\ store.version = h.stored.version + Cardinality(WritesOf(h))

\* C23: after handleDeleteTeam(t) and all the writes it starts have completed
\* successfully, t is absent from the stored teams list and from the teams
\* of every stored mentor, and every other team name and every other field
\* of every mentor (name, email, baseRate, photoURL, remaining teams) is as
\* it was stored when handleDeleteTeam was called.
C23_DeleteTeamEverywhere ==
    \A h \in calls :
        DeleteTeamCompleted(h) =>
            /\ store.teams = FilterOut(h.stored.teams, h.teamToDelete)
            /\ store.mentors =
                   {[d EXCEPT !.teams = FilterOut(@, h.teamToDelete)] :
                        d \in h.stored.mentors}

\* The team list alone: the handlers of the team settings with one mentor
\* of "Lecture Team" stored and listed, and no mentor form.
TeamListMentor ==
    [id |-> 1, name |-> "Asha", email |-> "", baseRate |-> 10,
     teams |-> <<"Lecture Team">>, photoURL |-> PlaceholderPhoto]

InitTeamList ==
    /\ CalculatorNotModelled
    /\ store = [teams |-> defaultTeams, mentors |-> {TeamListMentor},
                added |-> 1, version |-> 0]
    /\ app = [db |-> "firestore", userId |-> "u1", isLoading |-> FALSE,
              error |-> "", teams |-> defaultTeams,
              mentors |-> <<TeamListMentor>>,
              newTeamName |-> "", baseRatePerMinute |-> 10]
    /\ calls = {}

NextTeamList ==
    \/ \E name \in TeamNameInputs : SetNewTeamName(name)
    \/ handleAddTeam
    \/ \E c \in calls, ok \in BOOLEAN : SaveTeamsSettles(c, ok)
    \/ \E c \in calls, ok \in BOOLEAN : UpdateMentorSettles(c, ok)
    \/ \E teamToDelete \in DeleteTeamInputs : handleDeleteTeam(teamToDelete)
    \/ MentorsSnapshot

SpecTeamList == InitTeamList /\ [][NextTeamList]_vars

\* a list without the empty name and without a name twice
CleanTeams(list) ==
    \A i \in 1..Len(list) :
        list[i] # "" /\ \A j \in 1..Len(list) : list[i] = list[j] => i = j

\* the saveTeams calls that handleAddTeam made in a step
AddTeamCalls(before, after) ==
    {c \in after \ before :
        /\ c.op = "saveTeams" /\ c.by = 0
        /\ \A b \in before : b.n # c.n
        /\ \A h \in after \ before : h.op # "handleDeleteTeam"}

\* C28: from the default teams, through every sequence of handleAddTeam and
\* handleDeleteTeam (and of the saves, mentor writes and snapshots between
\* them), the teams of the state, of the teams document and of every
\* saveTeams call have no name twice and no empty name; and handleAddTeam
\* starts a save only of the teams with newTeamName appended, only when
\* newTeamName is non-empty and not in teams, changing nothing else.
C28_TeamsStayClean ==
    /\ [](/\ CleanTeams(app.teams)
          /\ Has(store, "teams") => CleanTeams(store.teams)
          /\ \A c \in calls : c.op = "saveTeams" => CleanTeams(c.newTeams))
    /\ [][\A c \in AddTeamCalls(calls, calls') :
              /\ app.newTeamName # ""
              /\ ~Includes(app.teams, app.newTeamName)
              /\ c.newTeams = Append(app.teams, app.newTeamName)
              /\ calls' = calls \cup {c}
              /\ app' = app /\ store' = store]_vars

\* "Alumni Team" was added and "Lecture Team" deleted, both are stored and
\* delivered, and "Alumni Team" is typed again
C28_Witness ==
    /\ Includes(store.teams, "Alumni Team")
    /\ ~Includes(store.teams, "Lecture Team")
    /\ app.teams = store.teams
    /\ app.newTeamName = "Alumni Team"
    /\ \A c \in calls : ~Running(c)

----------------------------------------------------------------------------
(***************************************************************************)
(* dashboardSummary (lines 478-509) and the Est. Payout of the Dashboard   *)
(* table and the Mentors list (lines 1104-1108, 1133, 1173-1177, 1208).    *)
(* The listeners set mentors and tasks, and the render that follows each   *)
(* recomputes the memo and the rows: app.payouts[i] is what the row of     *)
(* mentors[i] shows, as a number.                                          *)
(***************************************************************************)
RECURSIVE SumPayments(_)
\* line 498: mentorPayments.reduce((sum, p) => sum + p.payment, 0)
SumPayments(mentorPayments) ==
    IF mentorPayments = <<>> THEN 0
    ELSE SumPayments(SubSeq(mentorPayments, 1, Len(mentorPayments) - 1))
         + mentorPayments[Len(mentorPayments)].payment

RECURSIVE SumField(_, _)
\* lines 482, 485: reduce((sum, t) => sum + (t.field || 0), 0)
SumField(ts, field) ==
    IF ts = <<>> THEN 0
    ELSE SumField(SubSeq(ts, 1, Len(ts) - 1), field)
         + (IF Has(ts[Len(ts)], field) THEN ts[Len(ts)][field] ELSE 0)

\* Variant of MentorTasks that gives every mentor all the tasks.
MentorTasks_AllTasks(ts, m) == ts

\* lines 489, 1105, 1174: tasks.filter(t => t.mentorId === mentor.id)
MentorTasks(ts, m) == SelectSeq(ts, LAMBDA t : t.mentorId = m.id)

\* lines 478-509
dashboardSummary(mentors, ts) ==
    LET lectures == SelectSeq(ts, IsLecture)
        others == SelectSeq(ts, LAMBDA t : ~IsLecture(t))
        mentorPayments ==
            [i \in 1..Len(mentors) |->
                [mentorName |-> mentors[i].name,
                 payment |-> calculatePayment(MentorTasks(ts, mentors[i]),
                                              mentors[i]).P_final]]
    IN [totalMentors |-> Len(mentors),
        totalTasks |-> Len(ts),
        totalLectures |-> Len(lectures),
        totalMinutes |-> SumField(lectures, "minutes"),
        totalUnits |-> SumField(others, "chaptersCompleted"),
        totalPayments |-> SumPayments(mentorPayments),
        mentorPayments |-> mentorPayments]

\* Variant of paymentEntry that looks the entry up by position.
paymentEntry_ByIndex(summary, mentors, i) == i

\* lines 1107, 1176: mentorPayments.find(p => p.mentorName === mentor.name),
\* as the index of the entry found; every mentor has an entry of its name
paymentEntry(summary, mentors, i) ==
    CHOOSE k \in 1..Len(summary.mentorPayments) :
        /\ summary.mentorPayments[k].mentorName = mentors[i].name
        /\ \A j \in 1..(k - 1) :
              summary.mentorPayments[j].mentorName # mentors[i].name

\* lines 1133, 1208: paymentEntry.payment of each row
Payouts(summary, mentors) ==
    [i \in 1..Len(mentors) |->
        summary.mentorPayments[paymentEntry(summary, mentors, i)].payment]

\* the render after mentors or tasks have changed
Rendered(mentors, ts) ==
    LET summary == dashboardSummary(mentors, ts)
    IN [mentors |-> mentors, tasks |-> ts, dashboardSummary |-> summary,
        payouts |-> Payouts(summary, mentors)]

\* the mentor documents: two mentors of one name, at different base rates
DashboardMentors ==
    {[id |-> "m1", name |-> "Asha", baseRate |-> 10],
     [id |-> "m2", name |-> "Asha", baseRate |-> 15],
     [id |-> "m3", name |-> "Ravi", baseRate |-> 10]}

\* the work of the dashboard's tasks: two lectures, 2.5 units, a lecture
\* without minutes
DashboardWork ==
    {[taskType |-> "Lecture", chapterName |-> "Ch1", minutes |-> 60],
     [taskType |-> "Lecture", chapterName |-> "Ch2", minutes |-> 300, rating |-> 450],
     [taskType |-> "Content", chaptersCompleted |-> 2500],
     [taskType |-> "Lecture", chapterName |-> "Ch1"]}

\* tasks of the mentors shown, and of a mentor that is not among them
DashboardTasks ==
    {WithFields(w, [mentorId |-> m]) :
        w \in DashboardWork, m \in {"m1", "m2", "gone"}}

InitDashboard ==
    /\ CalculatorNotModelled
    /\ store = <<>>
    /\ calls = <<>>
    /\ app = Rendered(<<>>, <<>>)

\* lines 283-290: the mentors listener delivers one more mentor
MentorArrives(m) ==
    /\ Len(app.mentors) < MaxDashboardMentors
    /\ \A i \in 1..Len(app.mentors) : app.mentors[i].id # m.id
    /\ app' = Rendered(Append(app.mentors, m), app.tasks)
    /\ UNCHANGED <<store, calls, calcVars>>

\* lines 295-302: the tasks listener delivers one more task
TaskArrives(task) ==
    /\ Len(app.tasks) < MaxDashboardTasks
    /\ app' = Rendered(app.mentors, <<task>> \o app.tasks)
    /\ UNCHANGED <<store, calls, calcVars>>

NextDashboard ==
    \/ \E m \in DashboardMentors : MentorArrives(m)
    \/ \E task \in DashboardTasks : TaskArrives(task)

SpecDashboard == InitDashboard /\ [][NextDashboard]_vars

----------------------------------------------------------------------------
\* C24: the Est. Payout shown for every mentor is P_final of
\* calculatePayment of the tasks whose mentorId is that mentor's id, at that
\* mentor's baseRate, also when mentors share a name.
C24_PayoutIsOwn ==
    \A i \in 1..Len(app.mentors) :
        app.payouts[i] =
            calculatePayment(
                SelectSeq(app.tasks, LAMBDA t : t.mentorId = app.mentors[i].id),
                app.mentors[i]).P_final

\* the tasks of mentor i of the dashboard, and the tasks of no mentor shown
TasksOfMentor(i) == SelectSeq(app.tasks, LAMBDA t : t.mentorId = app.mentors[i].id)
OwnP_final(i) == calculatePayment(TasksOfMentor(i), app.mentors[i]).P_final
HasMentor(t) == \E i \in 1..Len(app.mentors) : t.mentorId = app.mentors[i].id
OrphanIdx == {k \in 1..Len(app.tasks) : ~HasMentor(app.tasks[k])}
LectureIdx == {k \in 1..Len(app.tasks) : IsLecture(app.tasks[k])}
DashMinutesAt(k) == IF Has(app.tasks[k], "minutes") THEN app.tasks[k].minutes ELSE 0
DashUnitsAt(k) ==
    IF Has(app.tasks[k], "chaptersCompleted") THEN app.tasks[k].chaptersCompleted
    ELSE 0

\* C25: totalPayments is the sum over the mentors in state of P_final of
\* calculatePayment of the mentor's own tasks at the mentor's baseRate; a task
\* counts for at most one mentor; the tasks of no mentor add nothing to
\* totalPayments and are counted in totalTasks, totalLectures, totalMinutes
\* and totalUnits.
C25_TotalPayments ==
    LET summary == app.dashboardSummary
    IN /\ summary.totalPayments = SumOf([i \in 1..Len(app.mentors) |-> OwnP_final(i)], 1..Len(app.mentors))
       /\ \A k \in 1..Len(app.tasks) :
             Cardinality({i \in 1..Len(app.mentors) :
                             app.tasks[k].mentorId = app.mentors[i].id}) <= 1
       /\ summary.totalPayments =
             dashboardSummary(app.mentors, SelectSeq(app.tasks, HasMentor)).totalPayments
       /\ summary.totalTasks = Len(app.tasks)
       /\ summary.totalLectures = Cardinality(LectureIdx)
       /\ summary.totalMinutes = SumOf([k \in 1..Len(app.tasks) |-> DashMinutesAt(k)], LectureIdx)
       /\ summary.totalUnits = SumOf([k \in 1..Len(app.tasks) |-> DashUnitsAt(k)],
                                    (1..Len(app.tasks)) \ LectureIdx)

\* two mentors, a lecture of the first and a lecture of a mentor not shown
C25_Witness ==
    /\ Len(app.mentors) = 2
    /\ Len(app.tasks) = 2
    /\ Cardinality(OrphanIdx) = 1
    /\ \A k \in OrphanIdx : IsLecture(app.tasks[k]) /\ DashMinutesAt(k) = 300
    /\ app.dashboardSummary.totalPayments = 480
    /\ app.dashboardSummary.totalMinutes = 360
    /\ app.dashboardSummary.totalLectures = 2

----------------------------------------------------------------------------
(***************************************************************************)
(* The App from its construction: the initialization effect (lines         *)
(* 190-243), the auth-state callback, the listeners effect (lines          *)
(* 246-309) and, once the main screen is rendered, the operations of the   *)
(* sections above.  firebaseConfig and initialAuthToken are the globals of *)
(* lines 24-25; store.currentUser is the user the auth instance holds;     *)
(* app.effect tells whether the initialization effect has run and          *)
(* app.listeners is <<>> or the userId the listeners were attached under.  *)
(* Auth-state callbacks run in the order they were queued.                 *)
(***************************************************************************)
\* the functions that read or write Firestore documents
CrudOps == {"saveTeams", "updateMentor", "deleteMentor", "addTask"}

\* the documents of an earlier session: one mentor with one task, and no
\* teams document
EarlierMentor ==
    [id |-> 1, name |-> "Asha", email |-> "", baseRate |-> 10,
     teams |-> <<"Lecture Team">>, photoURL |-> PlaceholderPhoto]

InitApp ==
    /\ CalculatorNotModelled
    /\ \E config \in {"null", "config"}, token \in {"null", "token"} :
          app = [firebaseConfig |-> config, initialAuthToken |-> token,
                 effect |-> "mounted", listeners |-> <<>>,
                 db |-> "null", auth |-> "null", userId |-> "null",
                 isAuthReady |-> FALSE, isLoading |-> TRUE, error |-> "",
                 mentors |-> <<>>, tasks |-> <<>>, teams |-> defaultTeams,
                 newTeamName |-> "", baseRatePerMinute |-> 10]
    /\ store = [currentUser |-> "null", mentors |-> {EarlierMentor},
                tasks |-> {[id |-> 2, mentorId |-> 1]},
                added |-> 2, version |-> 0]
    /\ calls = {}

\* onAuthStateChanged's callback queued for the user the auth instance holds
AuthStateChange(user, n) ==
    {[op |-> "onAuthStateChanged", at |-> "callback", user |-> user, n |-> n]}

\* lines 190-243, up to the return of the effect; throws tells whether
\* initializeApp, getFirestore or getAuth throws
InitEffect(throws) ==
    /\ app.effect = "mounted"
    /\ IF app.firebaseConfig = "null"
       THEN /\ app' = [app EXCEPT !.effect = "ran",
                          !.error = "Firebase configuration is missing.",
                          !.isLoading = FALSE]
            /\ UNCHANGED calls
       ELSE IF throws
       THEN /\ app' = [app EXCEPT !.effect = "ran",
                          !.error = "Failed to initialize Firebase services.",
                          !.isLoading = FALSE]
            /\ UNCHANGED calls
       ELSE /\ app' = [app EXCEPT !.effect = "ran", !.db = "firestore",
                          !.auth = "auth"]
            /\ calls' = AuthStateChange(store.currentUser, 1) \cup
                  (IF app.initialAuthToken # "null"
                   THEN {[op |-> "handleSignIn", at |-> "signInWithCustomToken",
                          n |-> 2]}
                   ELSE {})
    /\ UNCHANGED <<store, calcVars>>

\* lines 208-214: the callback runs up to its await, or to its end
AuthStateChanged(c) ==
    /\ c \in calls /\ c.op = "onAuthStateChanged" /\ c.at = "callback"
    /\ \A d \in calls :
          (d.op = "onAuthStateChanged" /\ d.at = "callback") => c.n <= d.n
    /\ IF c.user # "null"
       THEN /\ app' = [app EXCEPT !.userId = c.user, !.isAuthReady = TRUE,
                          !.isLoading = FALSE]
            /\ calls' = (calls \ {c}) \cup {[c EXCEPT !.at = "done"]}
       ELSE /\ calls' = (calls \ {c}) \cup {[c EXCEPT !.at = "signInAnonymously"]}
            /\ UNCHANGED app
    /\ UNCHANGED <<store, calcVars>>

\* await signInAnonymously (lines 213, 227) settles: the auth instance
\* holds an anonymous user unless it held a user, and the callback or
\* handleSignIn goes on; or the promise is rejected, which nothing catches
SignInAnonymouslySettles(c, ok) ==
    /\ c \in calls /\ c.at = "signInAnonymously"
    /\ IF ok
       THEN LET changed == store.currentUser = "null"
            IN /\ store' = [store EXCEPT
                      !.currentUser = IF changed THEN "anonymous" ELSE @]
               /\ calls' = (calls \ {c})
                      \cup {[c EXCEPT !.at = IF c.op = "onAuthStateChanged"
                                             THEN "resumed" ELSE "done"]}
                      \cup (IF changed
                            THEN AuthStateChange("anonymous", Cardinality(calls) + 1)
                            ELSE {})
       ELSE /\ calls' = (calls \ {c}) \cup {[c EXCEPT !.at = "failed"]}
            /\ UNCHANGED store
    /\ UNCHANGED <<app, calcVars>>

\* lines 215-216 after the await of line 213
CallbackResumes(c) ==
    /\ c \in calls /\ c.op = "onAuthStateChanged" /\ c.at = "resumed"
    /\ app' = [app EXCEPT !.isAuthReady = TRUE, !.isLoading = FALSE]
    /\ calls' = (calls \ {c}) \cup {[c EXCEPT !.at = "done"]}
    /\ UNCHANGED <<store, calcVars>>

\* lines 220-229: await signInWithCustomToken settles
CustomTokenSettles(c, ok) ==
    /\ c \in calls /\ c.op = "handleSignIn" /\ c.at = "signInWithCustomToken"
    /\ IF ok
       THEN /\ store' = [store EXCEPT !.currentUser = "u1"]
            /\ calls' = (calls \ {c}) \cup {[c EXCEPT !.at = "done"]}
                  \cup AuthStateChange("u1", Cardinality(calls) + 1)
       ELSE /\ calls' = (calls \ {c}) \cup {[c EXCEPT !.at = "signInAnonymously"]}
            /\ UNCHANGED store
    /\ UNCHANGED <<app, calcVars>>

\* Variant of ListenersGuard that does not look at userId.
ListenersGuard_NoUserId(a) == a.db # "null" /\ a.isAuthReady

\* line 248, negated
ListenersGuard(a) == a.db # "null" /\ a.isAuthReady /\ a.userId # "null"

\* lines 246-309: the effect runs after a render in which db, isAuthReady or
\* userId has changed; past its guard it starts checkAndSetDefaultTeams
\* (lines 260-272) and attaches the three listeners
ListenersEffect ==
    /\ app.effect = "ran"
    /\ app.listeners # <<app.userId>>
    /\ ListenersGuard(app)
    /\ app' = [app EXCEPT !.listeners = <<app.userId>>]
    /\ calls' = calls \cup
          {[op |-> "checkAndSetDefaultTeams", at |-> "getDoc",
            n |-> Cardinality(calls) + 1]}
    /\ UNCHANGED <<store, calcVars>>

\* lines 262-270: await getDoc settles; a rejection is logged (line 269)
\* and the function returns as it does when the document exists
DefaultTeamsGetDocSettles(c, ok) ==
    /\ c \in calls /\ c.op = "checkAndSetDefaultTeams" /\ c.at = "getDoc"
    /\ calls' = (calls \ {c}) \cup
          {[c EXCEPT !.at = IF ok /\ ~Has(store, "teams") THEN "setDoc"
                            ELSE "done"]}
    /\ UNCHANGED <<app, store, calcVars>>

\* lines 265-270: await setDoc settles; a rejection is logged only
DefaultTeamsSetDocSettles(c, ok) ==
    /\ c \in calls /\ c.op = "checkAndSetDefaultTeams" /\ c.at = "setDoc"
    /\ calls' = (calls \ {c}) \cup {[c EXCEPT !.at = "done"]}
    /\ store' = IF ok THEN WithFields(store, [teams |-> defaultTeams,
                                               version |-> store.version + 1])
                ELSE store
    /\ UNCHANGED <<app, calcVars>>

\* the listeners are attached
Listening == app.listeners # <<>>

\* the user starts one more operation, when the one before and the writes
\* it started have returned
MayOperate ==
    /\ Cardinality({c \in calls : c.op \in CrudOps \cup {"handleDeleteTeam"}
                                     /\ (Has(c, "by") => c.by = 0)})
          < MaxAppOperations
    /\ \A c \in calls : c.op \in CrudOps => ~Running(c)

NextApp ==
    \/ \E throws \in BOOLEAN : InitEffect(throws)
    \/ \E c \in calls : AuthStateChanged(c)
    \/ \E c \in calls, ok \in BOOLEAN : SignInAnonymouslySettles(c, ok)
    \/ \E c \in calls : CallbackResumes(c)
    \/ \E c \in calls, ok \in BOOLEAN : CustomTokenSettles(c, ok)
    \/ ListenersEffect
    \/ \E c \in calls, ok \in BOOLEAN : DefaultTeamsGetDocSettles(c, ok)
    \/ \E c \in calls, ok \in BOOLEAN : DefaultTeamsSetDocSettles(c, ok)
    \/ Listening /\ TeamsSnapshot
    \/ Listening /\ MentorsSnapshot
    \/ Listening /\ TasksSnapshot
    \/ MayOperate /\ SubmitMentorForm(NewMentorData, 0, "Lecture Team")
    \/ MayOperate /\ handleDeleteTeam("Lecture Team")
    \/ MayOperate /\ AddTaskCall(1)
    \/ MayOperate /\ \E confirmed \in BOOLEAN : DeleteMentorCall(1, confirmed)
    \/ \E c \in calls, ok \in BOOLEAN : SaveTeamsSettles(c, ok)
    \/ \E c \in calls, ok \in BOOLEAN : UpdateMentorSettles(c, ok)
    \/ \E c \in calls, ok \in BOOLEAN : AddDocSettles(c, ok)
    \/ \E c \in calls, ok \in BOOLEAN : DeleteMentorDocSettles(c, ok)
    \/ \E c \in calls, ok \in BOOLEAN : DeleteTaskDocSettles(c, ok)

SpecApp == InitApp /\ [][NextApp]_vars

----------------------------------------------------------------------------
\* the messages of lines 324, 361, 382 and 397
CrudErrors ==
    {"Failed to save teams.", "Failed to save mentor.",
     "Failed to delete mentor.", "Failed to add task."}

\* C26: the listeners and the default-teams check are started only with db
\* set, isAuthReady true and userId set; and while db or userId is null,
\* saveTeams, updateMentor, deleteMentor and addTask return at their guard:
\* no document is written and no state of the App is changed.
C26_NoAccessBeforeAuth ==
    /\ (Listening \/ \E c \in calls : c.op = "checkAndSetDefaultTeams") =>
          (app.db # "null" /\ app.isAuthReady /\ app.userId # "null")
    /\ (app.db = "null" \/ app.userId = "null") =>
          /\ \A c \in calls : c.op \in CrudOps => c.at = "returned"
          /\ store.version = 0
          /\ store.mentors = {EarlierMentor}
          /\ ~Has(store, "teams")
          /\ app.error \notin CrudErrors
          /\ app.teams = defaultTeams
          /\ app.mentors = <<>>
          /\ app.tasks = <<>>

\* the main screen is shown before the user id has arrived, and the team the
\* user deleted there is still in the teams state
C26_Witness ==
    /\ MainScreen
    /\ app.userId = "null"
    /\ app.isAuthReady
    /\ \E c \in calls : c.op = "saveTeams" /\ c.at = "returned"
    /\ Includes(app.teams, "Lecture Team")

\* C29: once error is a non-empty string no step makes it empty again, and
\* whenever isLoading is false after that, the error screen is what the App
\* renders.
C29_ErrorAbsorbing ==
    [][app.error # "" =>
          /\ app.error' # ""
          /\ ~app.isLoading' => (Screen' = "error" /\ ~MainScreen')]_vars

\* handleDeleteTeam's updateMentor has failed and its saveTeams has succeeded
C29_Witness ==
    /\ app.error = "Failed to save mentor."
    /\ \E c \in calls : c.op = "saveTeams" /\ c.at = "done"
    /\ ~Includes(app.teams, "Lecture Team")
    /\ Screen = "error"

\* the initialization effect has run and nothing it started is pending
InitSettled ==
    /\ app.effect = "ran"
    /\ \A c \in calls :
          c.op \in {"onAuthStateChanged", "handleSignIn"} => ~Running(c)

\* C30: on every path of the initialization effect isLoading becomes false,
\* and isAuthReady becomes true on the paths through the auth-state callback:
\* once nothing of the initialization is pending, the loading screen is left.
C30_LeavesLoading ==
    InitSettled =>
        /\ ~app.isLoading
        /\ (\E c \in calls : c.op = "onAuthStateChanged") => app.isAuthReady

----------------------------------------------------------------------------
(***************************************************************************)
(* TaskModal (lines 714-872) with addTask.  A number of the form is <<v>>, *)
(* and <<>> when parseFloat gave NaN; minutes are whole, chaptersCompleted *)
(* is in thousandths and rating in hundredths as in calculatePayment.      *)
(* The form is a <form> without noValidate: the browser fires onSubmit     *)
(* only when the inputs rendered satisfy their required, min and max       *)
(* attributes (lines 778-850).                                             *)
(***************************************************************************)
NaN == <<>>

\* parseFloat of the texts typed into a number input (line 732), by unit
ParseFloat(text, unit) ==
    CASE text = "" -> NaN
      [] text = "0" -> <<0>>
      [] text = "45" -> <<45 * unit>>

\* lines 716-726
DefaultFormData(m) ==
    [mentorId |-> m.id, mentorName |-> m.name, taskType |-> "Lecture",
     description |-> "", chapterName |-> "", minutes |-> <<0>>,
     chaptersCompleted |-> <<1000>>, rating |-> <<500>>, status |-> "Done"]

\* the mentor whose tasks the form submits
FormMentor == [id |-> 1, name |-> "Asha", baseRate |-> 10, teams |-> <<>>]

InitForm ==
    /\ CalculatorNotModelled
    /\ store = [mentors |-> {FormMentor}, tasks |-> {}, added |-> 0, version |-> 0]
    /\ app = [db |-> "firestore", userId |-> "u1", isLoading |-> FALSE,
              error |-> "", mentors |-> <<FormMentor>>, tasks |-> <<>>,
              taskMentor |-> <<>>, formData |-> <<>>]
    /\ calls = {}

\* line 1224: setTaskMentor(mentor) renders the TaskModal with its defaults
OpenTaskModal(i) ==
    /\ MainScreen
    /\ app.taskMentor = <<>>
    /\ Cardinality({c \in calls : c.op = "handleSubmit"}) < MaxSubmissions
    /\ app' = [app EXCEPT !.taskMentor = <<app.mentors[i]>>,
                          !.formData = DefaultFormData(app.mentors[i])]
    /\ UNCHANGED <<store, calls, calcVars>>

\* the inputs of the form that are rendered (lines 778-850)
RenderedInputs(formData) ==
    {"taskType", "description"} \cup
    (IF formData.taskType = "Lecture" THEN {"chapterName", "minutes", "rating"}
     ELSE {"chaptersCompleted"})

\* lines 728-734: handleChange of a rendered input
TaskFormChange(name, value) ==
    /\ MainScreen
    /\ app.taskMentor # <<>>
    /\ name \in RenderedInputs(app.formData)
    /\ app.formData[name] # value
    /\ app' = [app EXCEPT !.formData[name] = value]
    /\ UNCHANGED <<store, calls, calcVars>>

\* line 1356: onClose
CloseTaskModal ==
    /\ MainScreen
    /\ app.taskMentor # <<>>
    /\ app' = [app EXCEPT !.taskMentor = <<>>, !.formData = <<>>]
    /\ UNCHANGED <<store, calls, calcVars>>

\* required, min and max of the inputs rendered: description (line 784),
\* chapterName (line 802), minutes (lines 813-816), chaptersCompleted (lines
\* 828-831), rating (lines 843-848)
ConstraintValidation(formData) ==
    /\ formData.description # ""
    /\ IF formData.taskType = "Lecture"
       THEN /\ formData.chapterName # ""
            /\ formData.minutes # NaN /\ formData.minutes[1] >= 0
            /\ formData.rating # NaN
            /\ formData.rating[1] >= 100 /\ formData.rating[1] <= 500
       ELSE /\ formData.chaptersCompleted # NaN
            /\ formData.chaptersCompleted[1] >= 1000

\* x <= 0 for a number of the form: false for NaN
AtMostZero(x) == x # NaN /\ x[1] <= 0

\* Variant of ValidationFails that rejects negative minutes only.
ValidationFails_ZeroMinutes(formData) ==
    \/ /\ formData.taskType = "Lecture"
       /\ (formData.chapterName = ""
             \/ (formData.minutes # NaN /\ formData.minutes[1] < 0))
    \/ /\ formData.taskType # "Lecture"
       /\ AtMostZero(formData.chaptersCompleted)

\* lines 739-746: the two conditions under which handleSubmit returns
ValidationFails(formData) ==
    \/ /\ formData.taskType = "Lecture"
       /\ (formData.chapterName = "" \/ AtMostZero(formData.minutes))
    \/ /\ formData.taskType # "Lecture"
       /\ AtMostZero(formData.chaptersCompleted)

\* the number inputs of the form (lines 811, 826, 841)
NumberInputs == {"minutes", "chaptersCompleted", "rating"}

\* The document of a form's data: a NaN is stored as NaN, which every test
\* of calculatePayment (lines 38, 56, 100) takes as it takes a missing field
TaskData(formData) ==
    [f \in {g \in DOMAIN formData : g \in NumberInputs => formData[g] # NaN} |->
        IF f \in NumberInputs THEN formData[f][1] ELSE formData[f]]

\* The submit button (line 864): the browser validates the inputs and
\* fires onSubmit, handleSubmit (lines 735-750) returns or calls addTask and
\* onClose.  The submission is kept in calls with the data it saw.
SubmitTaskForm ==
    /\ MainScreen
    /\ app.taskMentor # <<>>
    /\ Cardinality({c \in calls : c.op = "handleSubmit"}) < MaxSubmissions
    /\ ConstraintValidation(app.formData)
    /\ LET n == Cardinality(calls) + 1
       IN IF ValidationFails(app.formData)
          THEN /\ calls' = calls \cup
                      {[op |-> "handleSubmit", at |-> "returned",
                        formData |-> app.formData, n |-> n]}
               /\ UNCHANGED app
          ELSE /\ calls' = calls \cup
                      {[op |-> "handleSubmit", at |-> "done",
                        formData |-> app.formData, n |-> n],
                       addTask(TaskData(app.formData), n + 1)}
               /\ app' = [app EXCEPT !.taskMentor = <<>>, !.formData = <<>>]
    /\ UNCHANGED <<store, calcVars>>

NextForm ==
    \/ \E i \in 1..Len(app.mentors) : OpenTaskModal(i)
    \/ \E taskType \in {"Lecture", "Content Team (Chapterwise)"} :
          TaskFormChange("taskType", taskType)
    \/ TaskFormChange("description", "notes")
    \/ \E chapterName \in {"", "Ch1"} : TaskFormChange("chapterName", chapterName)
    \/ \E text \in {"", "0", "45"} :
          TaskFormChange("minutes", ParseFloat(text, 1))
    \/ \E text \in {"", "0"} :
          TaskFormChange("chaptersCompleted", ParseFloat(text, 1000))
    \/ CloseTaskModal
    \/ SubmitTaskForm
    \/ \E c \in calls, ok \in BOOLEAN : AddDocSettles(c, ok)
    \/ TasksSnapshot

SpecForm == InitForm /\ [][NextForm]_vars

----------------------------------------------------------------------------
\* the condition of the claim: a lecture with a chapter name and minutes
\* above 0, or other work with chaptersCompleted above 0
Validated(formData) ==
    \/ /\ formData.taskType = "Lecture"
       /\ formData.chapterName # ""
       /\ formData.minutes # NaN /\ formData.minutes[1] > 0
    \/ /\ formData.taskType # "Lecture"
       /\ formData.chaptersCompleted # NaN /\ formData.chaptersCompleted[1] > 0

\* C27: handleSubmit calls addTask exactly when the form's data are a
\* lecture with a chapter name and minutes above 0, or other work with
\* chaptersCompleted above 0; a rejected submission writes nothing and leaves
\* the modal open; and every Lecture task the form has written is a record
\* calculatePayment includes.
C27_FormValidates ==
    [][/\ \A h \in calls' \ calls :
            h.op = "handleSubmit" =>
                /\ h.formData = app.formData
                /\ (h.at = "done") <=> Validated(h.formData)
                /\ h.at = "done" =>
                      /\ \E c \in calls' \ calls :
                            c.op = "addTask" /\ c.taskData = TaskData(h.formData)
                      /\ app'.taskMentor = <<>>
                /\ h.at = "returned" =>
                      /\ calls' = calls \cup {h}
                      /\ store' = store
                      /\ app' = app
                      /\ app'.taskMentor # <<>>
       /\ \A t \in store'.tasks :
            LectureTyped(t) =>
                /\ Included(t)
                /\ calculatePayment(<<t>>, FormMentor).lecturesCount = 1
                /\ calculatePayment(<<t>>, FormMentor).T_billable = t.minutes]_vars

\* a submission with 0 minutes was rejected and the next, of 45 minutes and
\* made while the hidden chaptersCompleted was NaN, is stored
C27_Witness ==
    /\ \E h \in calls : h.op = "handleSubmit" /\ h.at = "returned"
                            /\ h.formData.minutes = <<0>>
    /\ \E h \in calls : h.op = "handleSubmit" /\ h.at = "done"
                            /\ h.formData.chaptersCompleted = NaN
    /\ \E t \in store.tasks : LectureTyped(t) /\ t.minutes = 45
    /\ app.taskMentor = <<>>

=============================================================================
